---- MODULE Spec2Model ----
(***************************************************************************)
(* Lithography simulator: the observable parameter store (app/state.ts),   *)
(* CD measurement and the Bossung sweep (simulation/bossung.ts) and the    *)
(* simulation pipeline (simulation/pipeline.ts).                           *)
(*                                                                         *)
(* Real quantities are scaled to integers: NA, sigma, defocus and the      *)
(* Zernike coefficients are in hundredths, the view threshold in tenths,   *)
(* intensities and doses in units of 1/Q, lengths in 1/32 nm.              *)
(***************************************************************************)
EXTENDS Integers, Sequences, FiniteSets, TLC

VARIABLES
  \* ---- app/state.ts ----
  mask,           \* state.mask
  params,         \* state.params
  viewParams,     \* state.viewParams
  listeners,      \* listeners[]: the behaviour of each subscribed function
  pendingNotify,  \* let pendingNotify
  rafQueue,       \* callbacks handed to requestAnimationFrame, not yet run
  \* ---- history of the store (observations, not program state) ----
  lastOp,         \* the kind of the last operation: "call", "notifyNow", "tick"
  hist,
  lastCall,       \* the setter call just made, when the last operation was
                  \* one: its name, its arguments and the store before it
  \* ---- simulation/bossung.ts: calls of measureCD ----
  cdImage,        \* the intensity image measured
  cdMeas,         \* the measurements made of it: <<[dose, cd], ...>>
  \* ---- simulation/pipeline.ts, simulation/bossung.ts ----
  complexBuf,     \* the module's scratch buffer: [z, den], z empty before
                  \* the first call
  twiddleCache,   \* fft.ts: the memoised twiddle tables, by key
  pipelineCalls,  \* runPipeline invocations so far
  simLast,        \* the last call made: its arguments, the steps each
                  \* runPipeline invocation of it took, and what it returned
  heap,           \* the typed arrays reachable by the program: heap[a] is
                  \* the array at address a
  held,           \* the intensities callers have kept: <<[addr, data], ...>>,
                  \* data being the contents when runPipeline returned
  \* ---- app/main.ts on the host's event loop ----
  loop,           \* the call stack, the position of the runPipeline call in
                  \* progress, the tasks the host has queued, and the flags
                  \* of the Bossung controls
  \* ---- simulation/fft.ts, simulation/pupil.ts called on a grid ----
  grid,           \* [n, trail, ops]: the n x n grid a caller owns, as it was
                  \* given and after each call made on it, and the calls
  \* ---- ui/mask-editor.ts ----
  editor          \* the editor's tool and paint state, and what its
                  \* handlers have done

storeVars == <<mask, params, viewParams, listeners, pendingNotify, rafQueue>>
histVars == <<lastOp, hist, lastCall>>
cdVars == <<cdImage, cdMeas>>
simVars == <<complexBuf, twiddleCache, pipelineCalls, simLast, heap, held>>
loopVars == <<loop>>
gridVars == <<grid>>
editorVars == <<editor>>
vars == <<mask, params, viewParams, listeners, pendingNotify, rafQueue,
          lastOp, hist, lastCall, cdImage, cdMeas, complexBuf, twiddleCache,
          pipelineCalls, simLast, heap, held, loop, grid, editor>>

\* ------------------------------------------------------------------ bounds
MaxListeners == 2   \* subscribe calls in one run
MaxK == 3           \* setter calls made from outside a listener between two ticks
MaxNotifyNow == 2   \* notifyNow calls between two ticks
MaxKLive == 1       \* the same two, and the subscribe calls, under SpecLive
MaxNowLive == 1
MaxListenersLive == 1
MaxMeas == 2        \* measureCD calls on one image
Q == 4              \* an intensity or a dose of 1.0
MaxPipelineCalls == 3   \* no call starts after this many runPipeline runs
MaxEvents == 3      \* user events in one run of the event loop
MaxSweeps == 2      \* Bossung timer callbacks run in one run of the event loop
MaxGridOps == 2     \* calls made on one grid

\* ------------------------------------------------------------ app/state.ts
ZKeys == {"z4", "z5", "z6", "z7", "z8", "z9", "z10", "z11"}

DEFAULT_ZERNIKE_COEFFS == [k \in ZKeys |-> 0]

DEFAULT_VIEW_PARAMS == [threshold |-> 3, crossSectionRow |-> 128]

DEFAULT_PARAMS ==
  [wavelength |-> 248, na |-> 75, sigma |-> 50, defocus |-> 0,
   zernike |-> DEFAULT_ZERNIKE_COEFFS]

\* the grid: const N = 256 in the source, scaled to 4 x 4 here
N == 4
N2 == N * N

ZeroMask == [i \in 0..(N2 - 1) |-> 0]

\* isolated vertical line through the centre columns
LineMask == [i \in 0..(N2 - 1) |-> IF (i % N) \in {1, 2} THEN 1 ELSE 0]

\* The store as one value: what the setters read and write.
Store ==
  [mask |-> mask, params |-> params, viewParams |-> viewParams,
   pendingNotify |-> pendingNotify, rafQueue |-> rafQueue]

\* the AppState object handed to a listener
AppState(S) == [mask |-> S.mask, params |-> S.params, viewParams |-> S.viewParams]

ScheduleNotifyUnguarded(S) ==
  [S EXCEPT !.pendingNotify = TRUE, !.rafQueue = @ + 1]

ScheduleNotify(S) ==
  IF S.pendingNotify THEN S
  ELSE [S EXCEPT !.pendingNotify = TRUE, !.rafQueue = @ + 1]

SetMask(S, m) == ScheduleNotify([S EXCEPT !.mask = m])

\* a setter that drops a write while a notification is already pending
SetParamFirstWins(S, key, value) ==
  IF S.pendingNotify THEN S
  ELSE ScheduleNotify([S EXCEPT !.params[key] = value])

\* a setter that clamps sigma to the slider range
SetParamClamped(S, key, value) ==
  ScheduleNotify([S EXCEPT !.params[key] =
                    IF key = "sigma" /\ value > 100 THEN 100 ELSE value])

SetParam(S, key, value) == ScheduleNotify([S EXCEPT !.params[key] = value])

SetZernikeCoeff(S, key, value) ==
  ScheduleNotify([S EXCEPT !.params.zernike[key] = value])

SetViewParam(S, key, value) ==
  ScheduleNotify([S EXCEPT !.viewParams[key] = value])

\* a reset that copies DEFAULT_PARAMS over the scalar parameters only
ResetParamsScalarsOnly(S) ==
  ScheduleNotify([S EXCEPT !.params = [DEFAULT_PARAMS EXCEPT !.zernike = S.params.zernike],
                           !.viewParams = DEFAULT_VIEW_PARAMS])

ResetParams(S) ==
  ScheduleNotify([S EXCEPT !.params = DEFAULT_PARAMS,
                           !.viewParams = DEFAULT_VIEW_PARAMS])

\* ---------------------------------------------------------------- inputs
\* setter calls a caller may make: the sliders' values and values outside
\* the slider range (sigma 1.5)
SIGMA_MAX == 100
ParamInputs == {<<"na", 70>>, <<"na", 80>>, <<"sigma", 30>>, <<"sigma", 150>>}
ZernikeInputs == {<<"z9", 50>>}
ViewInputs == {<<"threshold", 5>>}
MaskInputs == {LineMask}

\* A subscribed function either only reads the state it is given ("read")
\* or clamps sigma through the store setter when it is out of range ("clamp").
ListenerKinds == {"read", "clamp"}

\* ---------------------------------------------------------------- history
\* lastWrite: per key, the value of the most recent setter call (the
\* initial value when there was none).
HistInit ==
  [k |-> 0,              \* setter calls from outside a listener since the last tick
   nowCount |-> 0,       \* notifyNow calls since the last tick
   calls |-> <<>>,       \* per listener: invocations in the last notification
   nowCalls |-> <<>>,    \* per listener: invocations by notifyNow since the last tick
   obs |-> <<>>,         \* observations of the last notification: the state
                         \* seen, whether it holds the last values written
                         \* (isLast) and those written before the
                         \* notification began (isBoundary)
   boundary |-> [mask |-> ZeroMask, params |-> DEFAULT_PARAMS,
                 viewParams |-> DEFAULT_VIEW_PARAMS],
   lastWrite |-> [mask |-> ZeroMask, params |-> DEFAULT_PARAMS,
                  viewParams |-> DEFAULT_VIEW_PARAMS],
   tickK |-> 0,          \* k as it was when the last tick fired
   w |-> 0,              \* setter calls made by listeners in the last notification
   reentered |-> FALSE,  \* a listener called a setter during the last tick
   afterReentry |-> FALSE, \* ... during the tick before the last one
   phase |-> 0,          \* parity of the current run of ticks with reentered
   threw |-> FALSE,      \* a listener threw in the last notification
   afterThrow |-> FALSE] \* ... in a notification before the last one

Zeros(n) == [i \in 1..n |-> 0]

\* --------------------------------------------------------- notification
\* for (const fn of listeners) fn(state): the listeners run in order, each
\* on the live state object; a "clamp" listener calls setParam, and a
\* "throw" listener throws when sigma is out of range, which ends the loop
\* and the callback.
RECURSIVE InvokeListeners(_, _, _)
InvokeListeners(i, S, H) ==
  IF i > Len(listeners) THEN [s |-> S, h |-> H]
  ELSE
    LET o == [listener |-> i, seen |-> AppState(S),
              isLast |-> (AppState(S) = H.lastWrite),
              isBoundary |-> (AppState(S) = H.boundary)]
        H1 == [H EXCEPT !.calls[i] = @ + 1, !.obs = Append(@, o)]
        writes == listeners[i] = "clamp" /\ S.params.sigma > SIGMA_MAX
        throws == listeners[i] = "throw" /\ S.params.sigma > SIGMA_MAX
        S1 == IF writes THEN SetParam(S, "sigma", SIGMA_MAX) ELSE S
        H2 == IF writes
              THEN [H1 EXCEPT !.lastWrite.params.sigma = SIGMA_MAX,
                              !.w = @ + 1]
              ELSE H1
    IN IF throws THEN [s |-> S, h |-> [H1 EXCEPT !.threw = TRUE]]
       ELSE InvokeListeners(i + 1, S1, H2)

\* a callback that never clears the flag
RafCallbackNoReset(S, H) == InvokeListeners(1, S, H)

\* a callback that clears the flag only after the listeners have run
RafCallbackResetAfter(S, H) ==
  LET r == InvokeListeners(1, S, H)
  IN IF r.h.threw THEN r
     ELSE [s |-> [r.s EXCEPT !.pendingNotify = FALSE], h |-> r.h]

\* the callback given to requestAnimationFrame
RafCallback(S, H) == InvokeListeners(1, [S EXCEPT !.pendingNotify = FALSE], H)

\* one display refresh runs the callbacks queued before it, in order
RECURSIVE RunCallbacks(_, _, _)
RunCallbacks(n, S, H) ==
  IF n = 0 THEN [s |-> S, h |-> H]
  ELSE LET r == RafCallback(S, H) IN RunCallbacks(n - 1, r.s, r.h)

\* ---------------------------------------------------------------- actions
Commit(S) ==
  /\ mask' = S.mask
  /\ params' = S.params
  /\ viewParams' = S.viewParams
  /\ pendingNotify' = S.pendingNotify
  /\ rafQueue' = S.rafQueue

\* what the last notification showed is kept until the next operation
Forget(H) ==
  [H EXCEPT !.calls = Zeros(Len(listeners)), !.obs = <<>>,
            !.boundary = H.lastWrite, !.tickK = 0, !.w = 0,
            !.afterReentry = FALSE,
            !.threw = FALSE, !.afterThrow = H.afterThrow \/ H.threw]

SetterHist(w) ==
  [Forget(hist) EXCEPT !.k = @ + 1, !.lastWrite = w, !.boundary = w]

DoSetMaskWith(m) ==
  /\ lastOp' = "call"
  /\ hist.k < MaxK
  /\ Commit(SetMask(Store, m))
  /\ hist' = SetterHist([hist.lastWrite EXCEPT !.mask = m])
  /\ UNCHANGED listeners

DoSetMask == \E m \in MaskInputs : DoSetMaskWith(m)

DoSetParamWith(in) ==
  /\ lastOp' = "call"
  /\ hist.k < MaxK
  /\ Commit(SetParam(Store, in[1], in[2]))
  /\ hist' = SetterHist([hist.lastWrite EXCEPT !.params[in[1]] = in[2]])
  /\ UNCHANGED listeners

DoSetParam == \E in \in ParamInputs : DoSetParamWith(in)

DoSetZernikeCoeffWith(in) ==
  /\ lastOp' = "call"
  /\ hist.k < MaxK
  /\ Commit(SetZernikeCoeff(Store, in[1], in[2]))
  /\ hist' = SetterHist([hist.lastWrite EXCEPT !.params.zernike[in[1]] = in[2]])
  /\ UNCHANGED listeners

DoSetZernikeCoeff == \E in \in ZernikeInputs : DoSetZernikeCoeffWith(in)

DoSetViewParamWith(in) ==
  /\ lastOp' = "call"
  /\ hist.k < MaxK
  /\ Commit(SetViewParam(Store, in[1], in[2]))
  /\ hist' = SetterHist([hist.lastWrite EXCEPT !.viewParams[in[1]] = in[2]])
  /\ UNCHANGED listeners

DoSetViewParam == \E in \in ViewInputs : DoSetViewParamWith(in)

DoResetParams ==
  /\ lastOp' = "call"
  /\ hist.k < MaxK
  /\ Commit(ResetParams(Store))
  /\ hist' = SetterHist([hist.lastWrite EXCEPT !.params = DEFAULT_PARAMS,
                                               !.viewParams = DEFAULT_VIEW_PARAMS])
  /\ UNCHANGED listeners

SubscribeOf(kinds) ==
  /\ lastOp' = "call"
  /\ Len(listeners) < MaxListeners
  /\ \E kind \in kinds : listeners' = Append(listeners, kind)
  /\ hist' = [Forget(hist) EXCEPT !.calls = Append(@, 0),
                                  !.nowCalls = Append(@, 0)]
  /\ UNCHANGED <<mask, params, viewParams, pendingNotify, rafQueue>>

Subscribe == SubscribeOf(ListenerKinds)

\* listeners that may throw
ThrowingKinds == {"read", "clamp", "throw"}
SubscribeThrowing == SubscribeOf(ThrowingKinds)

NotifyNow ==
  /\ lastOp' = "notifyNow"
  /\ hist.nowCount < MaxNotifyNow
  /\ \E r \in {InvokeListeners(1, Store,
                   [hist EXCEPT !.calls = Zeros(Len(listeners)), !.obs = <<>>,
                                !.boundary = hist.lastWrite, !.w = 0,
                                !.threw = FALSE,
                                !.afterThrow = hist.afterThrow \/ hist.threw])} :
        /\ Commit(r.s)
        /\ hist' = [r.h EXCEPT !.nowCount = @ + 1,
                               !.k = @ + r.h.w,
                               !.nowCalls = [i \in 1..Len(listeners) |->
                                               hist.nowCalls[i] + r.h.calls[i]],
                               !.boundary = r.h.lastWrite,
                               !.tickK = 0,
                               !.afterReentry = FALSE]
  /\ UNCHANGED listeners

\* the display refresh
Tick ==
  /\ lastOp' = "tick"
  /\ \E r \in {RunCallbacks(rafQueue, [Store EXCEPT !.rafQueue = 0],
                   [hist EXCEPT !.calls = Zeros(Len(listeners)), !.obs = <<>>,
                                !.boundary = hist.lastWrite, !.w = 0,
                                !.threw = FALSE,
                                !.afterThrow = hist.afterThrow \/ hist.threw])} :
        /\ Commit(r.s)
        /\ hist' = [r.h EXCEPT !.k = 0,
                               !.nowCount = 0,
                               !.tickK = hist.k,
                               !.boundary = r.h.lastWrite,
                               !.nowCalls = Zeros(Len(listeners)),
                               !.phase = IF r.h.w > 0 THEN 1 - @ ELSE 0,
                               !.reentered = (r.h.w > 0),
                               !.afterReentry = hist.reentered]
  /\ UNCHANGED listeners

\* ------------------------------------------------- setter calls, recorded
NoSetterCall == [name |-> "none"]

\* the record of a setter call made on the store as it is now
SetterCall(name, key, value) ==
  [name |-> name, key |-> key, value |-> value, before |-> Store]

\* the record of a resetParams call: of the parameters before it, whether
\* the optical parameters and the coefficients were the defaults
ResetCall ==
  [name |-> "resetParams",
   before |-> [mask |-> mask, pendingNotify |-> pendingNotify,
               rafQueue |-> rafQueue,
               scalarsSet |-> \E k \in DOMAIN params \ {"zernike"} :
                                 params[k] # DEFAULT_PARAMS[k],
               zernikeSet |-> params.zernike # DEFAULT_ZERNIKE_COEFFS]]

CallSetMask ==
  \E m \in MaskInputs :
    DoSetMaskWith(m) /\ lastCall' = SetterCall("setMask", "mask", m)

CallSetParam ==
  \E in \in ParamInputs :
    DoSetParamWith(in) /\ lastCall' = SetterCall("setParam", in[1], in[2])

CallSetZernikeCoeff ==
  \E in \in ZernikeInputs :
    DoSetZernikeCoeffWith(in)
      /\ lastCall' = SetterCall("setZernikeCoeff", in[1], in[2])

CallSetViewParam ==
  \E in \in ViewInputs :
    DoSetViewParamWith(in) /\ lastCall' = SetterCall("setViewParam", in[1], in[2])

CallResetParams == DoResetParams /\ lastCall' = ResetCall

\* the display refresh between two calls
RefreshBetweenCalls == rafQueue > 0 /\ Tick /\ lastCall' = NoSetterCall

StoreInit ==
  /\ mask = ZeroMask
  /\ params = DEFAULT_PARAMS
  /\ viewParams = DEFAULT_VIEW_PARAMS
  /\ listeners = <<>>
  /\ pendingNotify = FALSE
  /\ rafQueue = 0
  /\ lastOp = "call"
  /\ hist = HistInit
  /\ lastCall = NoSetterCall

StoreNext ==
  \/ DoSetMask
  \/ DoSetParam
  \/ DoSetZernikeCoeff
  \/ DoSetViewParam
  \/ DoResetParams
  \/ Subscribe
  \/ NotifyNow
  \/ Tick

\* ----------------------------------------------- simulation/fft.ts
\* A complex number is <<re, im>>.  A grid is [z, den]: bin i has the value
\* z[i] / den, exactly; the forward transform of a mask has den = 1.
\* the array of length n that holds f[0], ..., f[n - 1]
RECURSIVE ArrayFrom(_, _, _)
ArrayFrom(f, i, n) ==
  IF i = n - 1 THEN (i :> f[i]) ELSE (i :> f[i]) @@ ArrayFrom(f, i + 1, n)

Array(f, n) == ArrayFrom(f, 0, n)

CAdd(a, b) == <<a[1] + b[1], a[2] + b[2]>>

CSub(a, b) == <<a[1] - b[1], a[2] - b[2]>>

CMul(a, b) == <<a[1] * b[1] - a[2] * b[2], a[1] * b[2] + a[2] * b[1]>>

Log2N == CHOOSE k \in 0..N : 2^k = N

RECURSIVE BitReverseLoop(_, _, _)
BitReverseLoop(x, i, result) ==
  IF i = 0 THEN result
  ELSE BitReverseLoop(x \div 2, i - 1, (result * 2) + (x % 2))

BitReverse(x, log2N) == BitReverseLoop(x, log2N, 0)

\* getTwiddle: <<cos, sin>> of sign * PI * k / halfSize, for halfSize <= 2
Twiddle(halfSize, k, inverse) ==
  IF k = 0 THEN <<1, 0>> ELSE <<0, IF inverse THEN 1 ELSE -1>>

\* a key that leaves the direction out
TwiddleKeyNoDirection(halfSize, inverse) == <<halfSize, 0>>

\* the key of a twiddle table: `${halfSize}_${inverse ? 1 : 0}`
TwiddleKey(halfSize, inverse) == <<halfSize, IF inverse THEN 1 ELSE 0>>

TwiddleTable(halfSize, inverse) ==
  Array([k \in 0..(halfSize - 1) |-> Twiddle(halfSize, k, inverse)], halfSize)

\* getTwiddle: the cached table when there is one, else a new one
GetTwiddle(cache, halfSize, inverse) ==
  IF TwiddleKey(halfSize, inverse) \in DOMAIN cache
  THEN cache[TwiddleKey(halfSize, inverse)]
  ELSE TwiddleTable(halfSize, inverse)

\* the cache once the stages s, ..., Log2N of one direction have run
RECURSIVE FillCache(_, _, _)
FillCache(cache, s, inverse) ==
  IF s > Log2N THEN cache
  ELSE LET halfSize == 2^(s - 1)
       IN FillCache(
            IF TwiddleKey(halfSize, inverse) \in DOMAIN cache THEN cache
            ELSE (TwiddleKey(halfSize, inverse) :> TwiddleTable(halfSize, inverse))
                   @@ cache,
            s + 1, inverse)

\* one butterfly stage over all the blocks of a vector
Stage(x, s, inverse, cache) ==
  LET size == 2^s
      halfSize == size \div 2
      tw == GetTwiddle(cache, halfSize, inverse)
  IN Array([j \in 0..(N - 1) |->
        LET k == j % size
        IN IF k < halfSize
           THEN CAdd(x[j], CMul(tw[k], x[j + halfSize]))
           ELSE CSub(x[j - halfSize], CMul(tw[k - halfSize], x[j]))], N)

RECURSIVE Stages(_, _, _, _)
Stages(x, s, inverse, cache) ==
  IF s > Log2N THEN x
  ELSE Stages(Stage(x, s, inverse, cache), s + 1, inverse,
              FillCache(cache, s, inverse))

\* fft1d on a vector [z, den]: bit reversal, butterflies, 1 / N for inverse
Fft1d(v, inverse, cache) ==
  [z |-> Stages(Array([i \in 0..(N - 1) |-> v.z[BitReverse(i, Log2N)]], N),
                1, inverse, cache),
   den |-> IF inverse THEN v.den * N ELSE v.den]

\* fft2d: every row, then every column
Fft2d(G, inverse, cache) ==
  LET rows == Array([r \in 0..(N - 1) |->
                 Fft1d([z |-> [c \in 0..(N - 1) |-> G.z[r * N + c]],
                        den |-> G.den], inverse, cache)], N)
      cols == Array([c \in 0..(N - 1) |->
                 Fft1d([z |-> [r \in 0..(N - 1) |-> rows[r].z[c]],
                        den |-> rows[0].den], inverse,
                       FillCache(cache, 1, inverse))], N)
  IN [z |-> Array([i \in 0..(N2 - 1) |-> cols[i % N].z[i \div N]], N2),
      den |-> cols[0].den]

\* a partner in the same column
ShiftPartnerSameColumn(r, c, n) == ((r + (n \div 2)) * n) + c

\* idx2 / 2: the bin swapped with (r, c), r < half
ShiftPartner(r, c, n) == ((r + (n \div 2)) * n) + ((c + (n \div 2)) % n)

\* fftshift on an n x n grid: for r < half and every c, in row-major order
\* (the k-th pair), (r, c) and its partner are swapped
RECURSIVE FftshiftLoop(_, _, _)
FftshiftLoop(z, n, k) ==
  LET r == k \div n
      c == k % n
      idx1 == (r * n) + c
      idx2 == ShiftPartner(r, c, n)
  IN IF k >= (n \div 2) * n THEN z
     ELSE FftshiftLoop([z EXCEPT ![idx1] = z[idx2], ![idx2] = z[idx1]],
                       n, k + 1)

Fftshift(G) == [G EXCEPT !.z = FftshiftLoop(@, N, 0)]

\* --------------------------------------------- simulation/pupil.ts
\* params.na and params.sigma are in hundredths.  A phase is in quarter
\* turns: params.defocus is the defocus that turns the bin at unit frequency
\* by a quarter turn, Zernike coefficients are in hundredths of a wave and
\* every Zernike polynomial is taken at its lattice value fSq.
PupilPixelSize == 100   \* N * pixelSize = 400 nm, pixelSize scaled with N

\* fx * fx + fy * fy, in units of df * df
FSq(r, c) == (c - N \div 2) * (c - N \div 2) + (r - N \div 2) * (r - N \div 2)

\* an aperture that is open inside the cut-off circle only
BlockedAtCutoff(p, r, c) ==
  LET perField == 10000 \div (N * PupilPixelSize)
      effectiveNA == p.na * (100 + p.sigma)
  IN FSq(r, c) * (p.wavelength * perField) * (p.wavelength * perField)
       >= effectiveNA * effectiveNA

\* fSq > fCutoffSq
Blocked(p, r, c) ==
  LET perField == 10000 \div (N * PupilPixelSize)
      effectiveNA == p.na * (100 + p.sigma)
  IN FSq(r, c) * (p.wavelength * perField) * (p.wavelength * perField)
       > effectiveNA * effectiveNA

HasZernike(zernike) == \E k \in ZKeys : zernike[k] # 0

ZernikePhaseError(fSq, zernike) ==
  ((zernike.z4 + zernike.z5 + zernike.z6 + zernike.z7 + zernike.z8
     + zernike.z9 + zernike.z10 + zernike.z11) \div 25) * fSq

Phase(p, r, c) ==
  (IF p.defocus # 0 THEN p.defocus * FSq(r, c) ELSE 0)
   + (IF HasZernike(p.zernike) THEN ZernikePhaseError(FSq(r, c), p.zernike)
      ELSE 0)

\* <<cos, sin>> of a phase
CosSin(phase) ==
  LET q == phase % 4
  IN IF q = 0 THEN <<1, 0>>
     ELSE IF q = 1 THEN <<0, 1>>
     ELSE IF q = 2 THEN <<-1, 0>>
     ELSE <<0, -1>>

ApplyPupil(G, p) ==
  [G EXCEPT !.z = Array([i \in 0..(N2 - 1) |->
     LET r == i \div N
         c == i % N
     IN IF Blocked(p, r, c) THEN <<0, 0>>
        ELSE IF Phase(p, r, c) # 0 THEN CMul(G.z[i], CosSin(Phase(p, r, c)))
        ELSE G.z[i]], N2)]

\* ------------------------------------------ simulation/pipeline.ts
\* The scratch buffer holds doubles, taken as exact.  The intensity is a
\* Float32Array: a value stored in it is rounded to the nearest number with
\* F32_BITS significant bits, ties to even.  A stored number is [m, e], of
\* value m * 2^e with 2^(F32_BITS - 1) <= m < 2^F32_BITS, or m = 0.
F32_BITS == 4   \* 24 in a Float32Array, scaled

RECURSIVE Gcd(_, _)
Gcd(a, b) == IF b = 0 THEN a ELSE Gcd(b, a % b)

\* <<n1, d1, e>> with n / d = (n1 / d1) * 2^e and
\* 2^(F32_BITS - 1) <= n1 / d1 < 2^F32_BITS
RECURSIVE Normalize(_, _, _)
Normalize(n, d, e) ==
  IF n \div 2^F32_BITS >= d THEN Normalize(n, 2 * d, e + 1)
  ELSE IF n \div 2^(F32_BITS - 1) < d THEN Normalize(2 * n, d, e - 1)
  ELSE <<n, d, e>>

\* n / d, in [2^(F32_BITS - 1), 2^F32_BITS), to the nearest integer, ties
\* to even
RoundNearestEven(n, d, e) ==
  LET q == n \div d
      rem == n % d
      m == IF 2 * rem > d \/ (2 * rem = d /\ q % 2 = 1) THEN q + 1 ELSE q
  IN IF m = 2^F32_BITS THEN [m |-> m \div 2, e |-> e + 1]
     ELSE [m |-> m, e |-> e]

\* intensity[i] = num / den: the store into the Float32Array
ToFloat32(num, den) ==
  IF num = 0 THEN [m |-> 0, e |-> 0]
  ELSE LET g == Gcd(num, den)
           t == Normalize(num \div g, den \div g, 0)
       IN RoundNearestEven(t[1], t[2], t[3])

RECURSIVE MinExp(_, _, _)
MinExp(F, i, least) ==
  IF i = N2 THEN least
  ELSE MinExp(F, i + 1, IF F[i].e < least THEN F[i].e ELSE least)

\* the stored numbers as an image [px, den], den a power of two
ToImage(F) ==
  LET K == -MinExp(F, 0, 0)
  IN [px |-> Array([i \in 0..(N2 - 1) |-> F[i].m * 2^(F[i].e + K)], N2),
      den |-> 2^K]

NullBuf == [z |-> <<>>, den |-> 1]

\* getComplexBuf: the scratch buffer, allocated on first use
GetComplexBuf(buf) ==
  IF DOMAIN buf.z # 0..(N2 - 1)
  THEN [z |-> [i \in 0..(N2 - 1) |-> <<0, 0>>], den |-> 1]
  ELSE buf

\* Typed arrays are objects: heap[a] = [kind, data].  An address is never
\* given out twice; an array nothing refers to any more leaves a Free entry.
\* The data of the mask and of the scratch buffer are the mask argument and
\* complexBuf.
Free == [kind |-> "free", data |-> <<>>]
InitHeap == <<[kind |-> "mask", data |-> <<>>]>>
MaskAddr == CHOOSE a \in 1..Len(InitHeap) : InitHeap[a].kind = "mask"

ScratchAddr(H) ==
  IF \E a \in 1..Len(H) : H[a].kind = "scratch"
  THEN CHOOSE a \in 1..Len(H) : H[a].kind = "scratch"
  ELSE 0

\* getComplexBuf: if (!complexBuf) complexBuf = new Float64Array(N2 * 2)
AllocComplexBuf(H) ==
  IF ScratchAddr(H) = 0 THEN Append(H, [kind |-> "scratch", data |-> <<>>])
  ELSE H

\* an intensity array allocated once and used by every call
SharedFloat32Array(H) ==
  IF \E a \in 1..Len(H) : H[a].kind = "intensity"
  THEN CHOOSE a \in 1..Len(H) : H[a].kind = "intensity"
  ELSE Len(H) + 1

\* const intensity = new Float32Array(N2): the address of the new array
NewFloat32Array(H) == Len(H) + 1

\* the writes of intensity[i], as the array stands when the call returns
WriteIntensity(H, a, image) ==
  IF a = Len(H) + 1 THEN Append(H, [kind |-> "intensity", data |-> image])
  ELSE [H EXCEPT ![a] = [kind |-> "intensity", data |-> image]]

\* the last reference to the array at a goes out of scope
Drop(H, a) == [H EXCEPT ![a] = Free]

\* The run of one runPipeline call: the scratch buffer, the intensity being
\* built, the running maximum (over intensity.den), and the steps taken.
StartRun(buf, cache) ==
  [complex |-> GetComplexBuf(buf), twiddleCache |-> cache,
   intensity |-> [px |-> ZeroMask, den |-> 1],
   maxVal |-> 0, divided |-> FALSE, loaded |-> <<>>, trace |-> <<>>]

\* a load that writes the set pixels and leaves the other entries of the
\* scratch buffer as the previous call left them
LoadMaskSetOnly(P, m) ==
  [P EXCEPT !.complex = [z |-> [i \in 0..(N2 - 1) |->
                                  IF m[i] = 1 THEN <<@.den, 0>> ELSE @.z[i]],
                         den |-> @.den],
            !.loaded = [i \in 0..(N2 - 1) |-> <<m[i], 0>>],
            !.trace = Append(@, "load")]

\* 1. load mask into complex buffer (real part only)
LoadMask(P, m) ==
  [P EXCEPT !.complex = [z |-> [i \in 0..(N2 - 1) |-> <<m[i], 0>>], den |-> 1],
            !.loaded = [i \in 0..(N2 - 1) |-> <<m[i], 0>>],
            !.trace = Append(@, "load")]

\* 2. and 6. forward and inverse FFT
StepFft2d(P, inverse) ==
  [P EXCEPT !.complex = Fft2d(@, inverse, P.twiddleCache),
            !.twiddleCache = FillCache(@, 1, inverse),
            !.trace = Append(@, IF inverse THEN "ifft2d" ELSE "fft2d")]

\* 3. and 5. shifts
StepFftshift(P) ==
  [P EXCEPT !.complex = Fftshift(@), !.trace = Append(@, "fftshift")]

\* 4. pupil filter
StepApplyPupil(P, p) ==
  [P EXCEPT !.complex = ApplyPupil(@, p), !.trace = Append(@, "applyPupil")]

RECURSIVE MaxLoop(_, _, _)
MaxLoop(px, i, maxVal) ==
  IF i = N2 THEN maxVal
  ELSE MaxLoop(px, i + 1, IF px[i] > maxVal THEN px[i] ELSE maxVal)

\* 7. intensity = |amplitude|^2 and its maximum: val is a double,
\* intensity[i] = val is stored as a Float32, maxVal is the double
\* maxVal / (complex.den * complex.den)
StepIntensity(P) ==
  LET val == Array([i \in 0..(N2 - 1) |->
                      P.complex.z[i][1] * P.complex.z[i][1]
                        + P.complex.z[i][2] * P.complex.z[i][2]], N2)
      den == P.complex.den * P.complex.den
  IN [P EXCEPT !.intensity = ToImage(Array([i \in 0..(N2 - 1) |->
                                               ToFloat32(val[i], den)], N2)),
               !.maxVal = MaxLoop(val, 0, 0),
               !.trace = Append(@, "intensity")]

\* a normalisation that divides whatever the maximum is
StepNormaliseAlways(P) ==
  LET den == P.complex.den * P.complex.den
      g == Gcd(den, P.maxVal)
  IN [P EXCEPT !.intensity =
                 ToImage(Array([i \in 0..(N2 - 1) |->
                           ToFloat32(@.px[i] * (den \div g),
                                     @.den * (P.maxVal \div g))], N2)),
               !.divided = TRUE,
               !.trace = Append(@, "normalise")]

\* 8. normalize to [0, 1]: if (maxVal > 0) intensity[i] *= 1 / maxVal
StepNormalise(P) ==
  LET den == P.complex.den * P.complex.den
      g == Gcd(den, P.maxVal)
  IN [P EXCEPT !.intensity =
                 IF P.maxVal > 0
                 THEN ToImage(Array([i \in 0..(N2 - 1) |->
                                 ToFloat32(@.px[i] * (den \div g),
                                           @.den * (P.maxVal \div g))],
                               N2))
                 ELSE @,
               !.divided = P.maxVal > 0,
               !.trace = Append(@, "normalise")]

\* a pipeline that does not shift back before the inverse transform
RunPipelineNoShiftBack(M, m, p) ==
  LET P == StepNormalise(StepIntensity(StepFft2d(
             StepApplyPupil(StepFftshift(StepFft2d(
               LoadMask(StartRun(M.complexBuf, M.twiddleCache), m),
               FALSE)), p), TRUE)))
      H == AllocComplexBuf(M.heap)
      a == NewFloat32Array(H)
  IN [m |-> [complexBuf |-> P.complex, twiddleCache |-> P.twiddleCache,
             pipelineCalls |-> M.pipelineCalls + 1, runs |-> Append(M.runs, P),
             heap |-> WriteIntensity(H, a, P.intensity)],
      result |-> [intensity |-> P.intensity, addr |-> a]]

\* runPipeline on the machine M = [complexBuf, twiddleCache, pipelineCalls,
\* runs, heap]; the result is the intensity and the address of its array
RunPipeline(M, m, p) ==
  LET P == StepNormalise(StepIntensity(StepFft2d(StepFftshift(
             StepApplyPupil(StepFftshift(StepFft2d(
               LoadMask(StartRun(M.complexBuf, M.twiddleCache), m),
               FALSE)), p)), TRUE)))
      H == AllocComplexBuf(M.heap)
      a == NewFloat32Array(H)
  IN [m |-> [complexBuf |-> P.complex, twiddleCache |-> P.twiddleCache,
             pipelineCalls |-> M.pipelineCalls + 1, runs |-> Append(M.runs, P),
             heap |-> WriteIntensity(H, a, P.intensity)],
      result |-> [intensity |-> P.intensity, addr |-> a]]

\* ------------------------------------------- simulation/bossung.ts
\* An intensity image is [px, den]: pixel i has the value px[i] / den.
\* A dose is in units of 1 / Q.
PIXEL_SIZE_NM == 625   \* 19.53125 nm, in 1/32 nm

Abs(x) == IF x < 0 THEN -x ELSE x

\* a strict comparison: intensity[offset + i] * dose > 1.0
AboveStrict(intensity, offset, i, dose) ==
  intensity.px[offset + i] * dose > intensity.den * Q

\* intensity[offset + i] * dose >= 1.0
Above(intensity, offset, i, dose) ==
  intensity.px[offset + i] * dose >= intensity.den * Q

\* the for loop of measureCD from column i on; the centres are doubled
\* (center = runStart + len / 2 is a half-integer)
RECURSIVE MeasureCDLoop(_, _, _, _, _, _, _)
MeasureCDLoop(intensity, dose, last, i, bestLen, bestCenter2, runStart) ==
  IF i > last THEN bestLen
  ELSE
    LET offset == (N \div 2) * N
        above == i < N /\ Above(intensity, offset, i, dose)
    IN IF above /\ runStart < 0
       THEN MeasureCDLoop(intensity, dose, last, i + 1, bestLen, bestCenter2, i)
       ELSE IF ~above /\ runStart >= 0
       THEN LET len == i - runStart
                center2 == 2 * runStart + len
            IN IF \/ len > bestLen
                  \/ /\ len = bestLen
                     /\ Abs(center2 - N) < Abs(bestCenter2 - N)
               THEN MeasureCDLoop(intensity, dose, last, i + 1, len, center2, -1)
               ELSE MeasureCDLoop(intensity, dose, last, i + 1, bestLen,
                                  bestCenter2, -1)
       ELSE MeasureCDLoop(intensity, dose, last, i + 1, bestLen, bestCenter2,
                          runStart)

\* a loop that stops at the last column: for (i = 0; i < N; i++)
MeasureCDShortLoop(intensity, dose) ==
  MeasureCDLoop(intensity, dose, N - 1, 0, 0, -2, -1) * PIXEL_SIZE_NM

MeasureCD(intensity, dose) ==
  MeasureCDLoop(intensity, dose, N, 0, 0, -2, -1) * PIXEL_SIZE_NM

\* intensity images: any centre row over IVals, the other rows uniform
IVals == {0, Q \div 2, Q - 1, Q}
Doses == {-Q, 0, Q, Q + 2, 2 * Q}

ImageOf(row, fill) ==
  [px |-> [i \in 0..(N2 - 1) |-> IF i \div N = N \div 2 THEN row[i % N] ELSE fill],
   den |-> Q]

ImageInputs == {ImageOf(row, fill) : row \in [0..(N - 1) -> IVals], fill \in {0, Q}}

CDIdle ==
  /\ cdImage = [px |-> ZeroMask, den |-> 1]
  /\ cdMeas = <<>>

CDInit ==
  /\ cdImage \in ImageInputs
  /\ cdMeas = <<>>

MeasureCDCall ==
  /\ Len(cdMeas) < MaxMeas
  /\ \E dose \in Doses :
       cdMeas' = Append(cdMeas, [dose |-> dose, cd |-> MeasureCD(cdImage, dose)])
  /\ UNCHANGED cdImage

\* The numbers of linspace are doubles: DBL_BITS significant bits (53 in
\* the source, scaled), spaced one unit apart below 2^DBL_BITS and 2^e units
\* apart from 2^(DBL_BITS + e - 1) on. Every operation rounds its exact
\* result to the nearest of them, ties to the even one.
DBL_BITS == 4

RECURSIVE DblExp(_, _, _)
DblExp(a, d, e) ==
  IF a \div 2^(DBL_BITS + e) >= d THEN DblExp(a, d, e + 1) ELSE e

\* n / d as a double, d > 0
DblQuot(n, d) ==
  LET a == IF n < 0 THEN -n ELSE n
      e == DblExp(a, d, 0)
      q == a \div (d * 2^e)
      rem == a % (d * 2^e)
      m == IF 2 * rem > d * 2^e \/ (2 * rem = d * 2^e /\ q % 2 = 1)
           THEN q + 1 ELSE q
  IN IF n < 0 THEN -(m * 2^e) ELSE m * 2^e

\* x as a double
Dbl(x) == DblQuot(x, 1)

\* linspace
Linspace(min, max, steps) ==
  IF steps = 1 THEN <<DblQuot(Dbl(min + max), 2)>>
  ELSE [i \in 1..steps |->
          Dbl(min + DblQuot(Dbl(Dbl(max - min) * (i - 1)), steps - 1))]

\* Object.assign(baseParams, { defocus: focus }): the parameters of the
\* run are baseParams itself
AssignDefocus(baseParams, focus) ==
  [params |-> [baseParams EXCEPT !.defocus = focus],
   base |-> [baseParams EXCEPT !.defocus = focus]]

\* { ...baseParams, defocus: focus }: the parameters of the run, a new
\* object, and baseParams as the expression leaves it
SpreadDefocus(baseParams, focus) ==
  [params |-> [baseParams EXCEPT !.defocus = focus],
   base |-> baseParams]

\* curves[d].points.push({ focus, cd }) placed at the front instead
PushPointFront(curve, point) == [curve EXCEPT !.points = <<point>> \o @]

\* curves[d].points.push({ focus, cd })
PushPoint(curve, point) == [curve EXCEPT !.points = Append(@, point)]

RECURSIVE RunPipelineTimes(_, _, _, _)
RunPipelineTimes(M, m, p, n) ==
  IF n = 1 THEN RunPipeline(M, m, p)
  ELSE LET run == RunPipeline(M, m, p)
       IN RunPipelineTimes([run.m EXCEPT !.heap = Drop(@, run.result.addr)],
                           m, p, n - 1)

\* a sweep body that runs the pipeline for every dose
SweepFocusPerDose(M, m, baseParams, focus, doseValues, curves) ==
  LET p == SpreadDefocus(baseParams, focus).params
      run == RunPipelineTimes(M, m, p, Len(doseValues))
  IN [m |-> [run.m EXCEPT !.heap = Drop(@, run.result.addr)],
      curves |-> [d \in 1..Len(doseValues) |->
                    PushPoint(curves[d],
                      [focus |-> focus,
                       cd |-> MeasureCD(run.result.intensity, doseValues[d])])]]

\* the body of the sweep's focus loop: one pipeline run, one CD per dose
SweepFocus(M, m, baseParams, focus, doseValues, curves) ==
  LET p == SpreadDefocus(baseParams, focus).params
      run == RunPipeline(M, m, p)
  IN [m |-> [run.m EXCEPT !.heap = Drop(@, run.result.addr)],
      curves |-> [d \in 1..Len(doseValues) |->
                    PushPoint(curves[d],
                      [focus |-> focus,
                       cd |-> MeasureCD(run.result.intensity, doseValues[d])])]]

RECURSIVE SweepLoop(_, _, _, _, _, _, _)
SweepLoop(M, m, baseParams, focusValues, doseValues, curves, f) ==
  IF f > Len(focusValues) THEN [m |-> M, curves |-> curves]
  ELSE LET r == SweepFocus(M, m, baseParams, focusValues[f], doseValues, curves)
       IN SweepLoop(r.m, m, baseParams, focusValues, doseValues, r.curves, f + 1)

RunBossungSweep(M, m, baseParams, sweepParams) ==
  LET focusValues == Linspace(sweepParams.focusRange[1],
                              sweepParams.focusRange[2],
                              sweepParams.focusSteps)
      doseValues == Linspace(sweepParams.doseRange[1],
                             sweepParams.doseRange[2],
                             sweepParams.doseSteps)
      curves == [d \in 1..Len(doseValues) |->
                   [dose |-> doseValues[d], points |-> <<>>]]
      r == SweepLoop(M, m, baseParams, focusValues, doseValues, curves, 1)
  IN [m |-> r.m,
      result |-> [curves |-> r.curves, focusValues |-> focusValues,
                  doseValues |-> doseValues,
                  pipelineRuns |-> Len(focusValues)]]

\* inputs of the simulation calls
DotMask == [i \in 0..(N2 - 1) |-> IF i \in {N * (N \div 2), N2 - 1} THEN 1 ELSE 0]
SimMasks == {ZeroMask, LineMask, DotMask}
SimParams ==
  {DEFAULT_PARAMS,
   [DEFAULT_PARAMS EXCEPT !.na = 10],
   [DEFAULT_PARAMS EXCEPT !.sigma = 100, !.defocus = 1, !.zernike.z9 = 50]}
SweepInputs ==
  [focusRange : {<<-6, 6>>}, focusSteps : {1, 2, 3},
   doseRange : {<<Q, Q + 6>>}, doseSteps : {1, 2, 3}]
  \cup [focusRange : {<<-6, 10>>}, focusSteps : {1},
        doseRange : {<<Q, Q + 6>>}, doseSteps : {1}]
  \cup [focusRange : {<<-6, 11>>}, focusSteps : {2},
        doseRange : {<<Q, Q + 6>>}, doseSteps : {1}]

\* ------------------------------------------------- ui/mask-editor.ts
\* The canvas is N x N; the stamp sizes, 4..60 in the source with default
\* 20, are scaled with it.
MaxEdits == 2       \* handlers run that write to the mask
StampSizeDefault == 2
StampSizes == {2, 3}
StampShapes == {"square", "circle", "ring", "cross", "lineH", "lineV"}

Max2(a, b) == IF a > b THEN a ELSE b

\* generateStampOffsets: r = size / 2, half = floor(size / 2); the tests
\* on r are multiplied out (d2 <= r * r is 4 * d2 <= size * size, and
\* d2 >= (0.6 * r)^2 is 100 * d2 >= 9 * size * size)
GenerateStampOffsets(shape, size) ==
  LET half == size \div 2
      arm == Max2(1, size \div 6)
      box == (-half..half) \X (-half..half)
      D2(o) == o[1] * o[1] + o[2] * o[2]
  IN CASE shape = "square" -> box
       [] shape = "circle" -> {o \in box : 4 * D2(o) <= size * size}
       [] shape = "ring" ->
            {o \in box : 4 * D2(o) <= size * size
                           /\ 100 * D2(o) >= 9 * size * size}
       [] shape = "cross" -> {o \in box : Abs(o[1]) <= arm \/ Abs(o[2]) <= arm}
       [] shape = "lineH" -> (-half..half) \X (-arm..arm)
       [] shape = "lineV" -> (-arm..arm) \X (-half..half)

\* the 3 x 3 block of paintBrush
BrushOffsets == (-1..1) \X (-1..1)

\* mask[py * N + px] = paintValue for the offsets that fall on the canvas
PaintAt(m, x, y, offsets, paintValue) ==
  [i \in 0..(N2 - 1) |->
     IF \E o \in offsets :
          /\ x + o[1] >= 0 /\ x + o[1] < N
          /\ y + o[2] >= 0 /\ y + o[2] < N
          /\ i = (y + o[2]) * N + (x + o[1])
     THEN paintValue ELSE m[i]]

\* mask-presets.ts, with the pitches and widths scaled to the grid
LineSpace == [i \in 0..(N2 - 1) |-> IF (i % N) % 2 < 1 THEN 1 ELSE 0]
Contacts ==
  [i \in 0..(N2 - 1) |->
     IF (i \div N) % 2 >= 0 /\ (i \div N) % 2 < 1
        /\ (i % N) % 2 >= 0 /\ (i % N) % 2 < 1 THEN 1 ELSE 0]
IsolatedLine ==
  LET width == 2
      left == (N - width) \div 2
  IN [i \in 0..(N2 - 1) |->
        IF (i % N) >= left /\ (i % N) < left + width THEN 1 ELSE 0]
DenseLines == [i \in 0..(N2 - 1) |-> IF (i % N) % 3 < 1 THEN 1 ELSE 0]
LShape ==
  LET c0 == N \div 2
      armLength == 2
      armWidth == 2
      InH(dr, dc) == /\ dc >= 0 /\ dc < armLength
                     /\ 2 * dr >= -armWidth /\ 2 * dr < armWidth
      InV(dr, dc) == /\ dr >= 0 /\ dr < armLength
                     /\ 2 * dc >= -armWidth /\ 2 * dc < armWidth
  IN [i \in 0..(N2 - 1) |->
        IF InH((i \div N) - c0, (i % N) - c0) \/ InV((i \div N) - c0, (i % N) - c0)
        THEN 1 ELSE 0]
PRESETS == <<LineSpace, Contacts, IsolatedLine, DenseLines, LShape>>

\* paintValue = e.button, whatever the button
ButtonAsValue(button) == button

\* paintValue = e.button === 2 ? 0 : 1
PaintValueOf(button) == IF button = 2 THEN 0 ELSE 1

\* mask[i] = mask[i] > 0 ? 0 : 1
Invert(m) == [i \in 0..(N2 - 1) |-> IF m[i] > 0 THEN 0 ELSE 1]

\* paint that ends after renderMask, without setMask(mask)
PaintUnpublished(S, E, x, y) ==
  [S EXCEPT !.mask =
     PaintAt(S.mask, x, y,
             IF E.toolMode = "stamp"
             THEN GenerateStampOffsets(E.stampShape, E.stampSize)
             ELSE BrushOffsets, E.paintValue)]

\* paint: the stamp or the brush writes to the store's mask, then
\* setMask(mask)
Paint(S, E, x, y) ==
  LET painted == PaintAt(S.mask, x, y,
                         IF E.toolMode = "stamp"
                         THEN GenerateStampOffsets(E.stampShape, E.stampSize)
                         ELSE BrushOffsets, E.paintValue)
  IN SetMask([S EXCEPT !.mask = painted], painted)

\* the editor after createMaskEditor
EditorIdle ==
  [toolMode |-> "brush", stampShape |-> "square",
   stampSize |-> StampSizeDefault,
   painting |-> FALSE, paintValue |-> 1,
   edits |-> 0,         \* handlers run so far that write to the mask
   last |-> "none",     \* the last handler run
   dirty |-> FALSE]     \* the mask's contents have changed since the
                        \* listeners were last invoked

\* the pixels the pointer is at, and the buttons pressed
PaintPixels == {<<0, 0>>, <<2, 1>>}
Buttons == {0, 2}

\* a handler that wrote to the mask returns
EditorReturn(S, E, name) ==
  /\ Commit(S)
  /\ editor' = [E EXCEPT !.edits = @ + 1, !.last = name,
                         !.dirty = @ \/ S.mask # mask]
  /\ UNCHANGED <<listeners, histVars>>

MouseDown ==
  /\ editor.edits < MaxEdits
  /\ \E button \in Buttons, px \in PaintPixels :
       LET E == [editor EXCEPT !.painting = TRUE,
                               !.paintValue = PaintValueOf(button)]
       IN EditorReturn(Paint(Store, E, px[1], px[2]), E, "paint")

MouseMove ==
  /\ editor.edits < MaxEdits
  /\ editor.painting
  /\ \E px \in PaintPixels :
       EditorReturn(Paint(Store, editor, px[1], px[2]), editor, "paint")

\* mouseup and mouseleave
MouseUp ==
  /\ editor.painting
  /\ editor' = [editor EXCEPT !.painting = FALSE, !.last = "mouseup"]
  /\ UNCHANGED <<storeVars, histVars>>

SetToolMode ==
  /\ \E mode \in {"brush", "stamp"} :
       /\ mode # editor.toolMode
       /\ editor' = [editor EXCEPT !.toolMode = mode, !.last = "tool"]
  /\ UNCHANGED <<storeVars, histVars>>

ClickShape ==
  /\ \E shape \in StampShapes :
       /\ shape # editor.stampShape
       /\ editor' = [editor EXCEPT !.stampShape = shape, !.last = "tool"]
  /\ UNCHANGED <<storeVars, histVars>>

InputSize ==
  /\ \E size \in StampSizes :
       /\ size # editor.stampSize
       /\ editor' = [editor EXCEPT !.stampSize = size, !.last = "tool"]
  /\ UNCHANGED <<storeVars, histVars>>

ClickPreset ==
  /\ editor.edits < MaxEdits
  /\ \E p \in 1..Len(PRESETS) :
       EditorReturn(SetMask(Store, PRESETS[p]), editor, "preset")

ClickClear ==
  /\ editor.edits < MaxEdits
  /\ EditorReturn(SetMask(Store, ZeroMask), editor, "clear")

ClickInvert ==
  /\ editor.edits < MaxEdits
  /\ LET inverted == Invert(mask)
     IN EditorReturn(SetMask([Store EXCEPT !.mask = inverted], inverted),
                     editor, "invert")

\* the display refresh: the subscriber of main.ts is invoked
EditorRefresh ==
  /\ rafQueue > 0
  /\ Tick
  /\ editor' = [editor EXCEPT !.last = "tick", !.dirty = FALSE]
  /\ lastCall' = lastCall

\* app/main.ts on the event loop, before any task has run
LoopIdle ==
  [stack |-> <<>>,
   run |-> <<>>,             \* the run of the runPipeline call in progress
   args |-> <<>>,            \* its arguments: [mask, params]
   pc |-> 0,                 \* the step it takes next, 1..8
   addr |-> 0,               \* the address of its intensity array
   base |-> <<>>,            \* the sweep in progress: the store as it began
   focus |-> <<>>,           \* ... and the focus values it has yet to run
   timers |-> <<>>,          \* setTimeout callbacks not yet run: bossungParams
   inputs |-> <<>>,          \* user events the host has queued
   events |-> 0,             \* user events so far
   sweeps |-> 0,             \* timer callbacks run so far
   requests |-> 0,           \* run clicks and tab switches dispatched so far
   bossungRunning |-> FALSE, \* let bossungRunning
   runDisabled |-> FALSE]    \* runBtn.disabled

\* no grid
GridIdle == [n |-> 0, trail |-> <<>>, ops |-> <<>>]

NoCall ==
  [op |-> "none", mask |-> ZeroMask, params |-> DEFAULT_PARAMS,
   sweepParams |-> <<>>, before |-> 0, runs |-> <<>>, result |-> <<>>]

SimInit ==
  /\ complexBuf = NullBuf
  /\ twiddleCache = <<>>
  /\ pipelineCalls = 0
  /\ simLast = NoCall
  /\ heap = InitHeap
  /\ held = <<>>
  /\ loop = LoopIdle
  /\ grid = GridIdle
  /\ editor = EditorIdle

Machine ==
  [complexBuf |-> complexBuf, twiddleCache |-> twiddleCache,
   pipelineCalls |-> pipelineCalls, runs |-> <<>>, heap |-> heap]

\* a call of runPipeline by a caller that drops the result (keep = FALSE)
\* or keeps the intensity it got (keep = TRUE)
RunPipelineOn(masks, ps, keep) ==
  /\ pipelineCalls < MaxPipelineCalls
  /\ \E m \in masks, p \in ps :
       \E r \in {RunPipeline(Machine, m, p)} :
         /\ complexBuf' = r.m.complexBuf
         /\ twiddleCache' = r.m.twiddleCache
         /\ pipelineCalls' = r.m.pipelineCalls
         /\ simLast' = [op |-> "runPipeline", mask |-> m, params |-> p,
                        sweepParams |-> <<>>, before |-> pipelineCalls,
                        runs |-> r.m.runs, result |-> r.result]
         /\ heap' = IF keep THEN r.m.heap ELSE Drop(r.m.heap, r.result.addr)
         /\ UNCHANGED <<loop, grid, editor>>
         /\ held' = IF keep
                    THEN Append(held, [addr |-> r.result.addr,
                                       data |-> r.result.intensity])
                    ELSE held

RunBossungSweepOn(masks, ps, sws) ==
  /\ pipelineCalls < MaxPipelineCalls
  /\ \E m \in masks, p \in ps, sw \in sws :
       \E r \in {RunBossungSweep(Machine, m, p, sw)} :
         /\ complexBuf' = r.m.complexBuf
         /\ twiddleCache' = r.m.twiddleCache
         /\ pipelineCalls' = r.m.pipelineCalls
         /\ simLast' = [op |-> "runBossungSweep", mask |-> m, params |-> p,
                        sweepParams |-> sw, before |-> pipelineCalls,
                        runs |-> r.m.runs, result |-> r.result]
         /\ heap' = r.m.heap
         /\ held' = held
         /\ UNCHANGED <<loop, grid, editor>>

RunPipelineCall == RunPipelineOn(SimMasks, SimParams, FALSE)

RunBossungSweepCall == RunBossungSweepOn(SimMasks, SimParams, SweepInputs)

\* callers that keep every intensity they were given
KeepParams == {DEFAULT_PARAMS, [DEFAULT_PARAMS EXCEPT !.na = 10]}
KeepSweeps ==
  [focusRange : {<<-6, 6>>}, focusSteps : {2},
   doseRange : {<<Q, Q + 6>>}, doseSteps : {1}]

RunPipelineKeep == RunPipelineOn(SimMasks, KeepParams, TRUE)

RunBossungSweepKeep == RunBossungSweepOn(SimMasks, KeepParams, KeepSweeps)

\* ---------------------------------------------- calls on a caller's grid
\* fftshift is called on grids of every size in GridSizes; fft2d and
\* applyPupil on the N x N grids.
GridSizes == {2, N, 6}
GridValues == {<<1, 0>>, <<-2, 3>>}

Impulse(n, at, v) ==
  [z |-> [i \in 0..(n * n - 1) |-> IF i = at THEN v ELSE <<0, 0>>], den |-> 1]

Ramp(n) == [z |-> [i \in 0..(n * n - 1) |-> <<i + 1, (i % 3) - 1>>], den |-> 1]

GridInputs(n) ==
  {Impulse(n, at, v) : at \in 0..(n * n - 1), v \in GridValues} \cup {Ramp(n)}

\* parameters with no defocus and no aberration: the default aperture, an
\* aperture that passes the DC bin alone, and one whose cut-off lies on the
\* bins at unit frequency; and parameters with defocus and with coma
PupilInputs ==
  {DEFAULT_PARAMS,
   [DEFAULT_PARAMS EXCEPT !.na = 10],
   [DEFAULT_PARAMS EXCEPT !.wavelength = 240, !.na = 40],
   [DEFAULT_PARAMS EXCEPT !.defocus = 1],
   [DEFAULT_PARAMS EXCEPT !.zernike.z9 = 50]}

Current(g) == g.trail[Len(g.trail)]

Called(g, op, G) ==
  [g EXCEPT !.trail = Append(@, G), !.ops = Append(@, op)]

GridInit ==
  \E n \in GridSizes : \E G \in GridInputs(n) :
    grid = [n |-> n, trail |-> <<G>>, ops |-> <<>>]

CallFftshift ==
  /\ Len(grid.ops) < MaxGridOps
  /\ grid' = Called(grid, [name |-> "fftshift"],
                    [Current(grid) EXCEPT !.z = FftshiftLoop(@, grid.n, 0)])
  /\ UNCHANGED simVars

CallFft2d ==
  /\ Len(grid.ops) < MaxGridOps
  /\ grid.n = N
  /\ \E inverse \in BOOLEAN :
       /\ grid' = Called(grid, [name |-> "fft2d", inverse |-> inverse],
                         Fft2d(Current(grid), inverse, twiddleCache))
       /\ twiddleCache' = FillCache(twiddleCache, 1, inverse)
  /\ UNCHANGED <<complexBuf, pipelineCalls, simLast, heap, held>>

CallApplyPupil ==
  /\ Len(grid.ops) < MaxGridOps
  /\ grid.n = N
  /\ \E p \in PupilInputs :
       grid' = Called(grid, [name |-> "applyPupil", params |-> p],
                      ApplyPupil(Current(grid), p))
  /\ UNCHANGED simVars

\* ------------------------------------------------------------ app/main.ts
\* The host runs one task at a time: a user event, the display refresh, or
\* a timer callback.  loop.stack holds the calls in progress, innermost
\* last: "tick" is the subscriber of main.ts run by the display refresh,
\* "timeout" the callback given to setTimeout, "runBossungSweep" and
\* "runPipeline" the calls they make.  runPipeline is taken step by step on
\* the module's scratch buffer.
\* the user moves a slider, clicks "Run Bossung Analysis", or opens the
\* Bossung tab
UserEvents == {"slider", "run", "tab"}
LoopParamInputs == {<<"na", 70>>}
LoopSweeps ==
  [focusRange : {<<-6, 6>>}, focusSteps : {2},
   doseRange : {<<Q, Q + 6>>}, doseSteps : {1}]

\* a host that also starts a task while a sweep is between two runs
IdleOrBetweenRuns(L) ==
  IF L.stack = <<>> THEN TRUE
  ELSE L.stack[Len(L.stack)] = "runBossungSweep"

\* the host starts a task only when no task is running
Idle(L) == L.stack = <<>>

\* the click listener of the run button, through onRun: setRunning(true)
\* and setTimeout; a disabled button dispatches no click
ClickRun(L, sw) ==
  IF L.runDisabled THEN L
  ELSE [L EXCEPT !.runDisabled = TRUE, !.timers = Append(@, sw)]

\* layout.onVizModeChange for mode "bossung"
OnVizModeChange(L, sw) ==
  IF ~L.bossungRunning THEN ClickRun([L EXCEPT !.bossungRunning = TRUE], sw)
  ELSE L

\* the steps of runPipeline, in the order of the source
StepAt(P, pc, m, p) ==
  CASE pc = 1 -> LoadMask(P, m)
    [] pc = 2 -> StepFft2d(P, FALSE)
    [] pc = 3 -> StepFftshift(P)
    [] pc = 4 -> StepApplyPupil(P, p)
    [] pc = 5 -> StepFftshift(P)
    [] pc = 6 -> StepFft2d(P, TRUE)
    [] pc = 7 -> StepIntensity(P)
    [] pc = 8 -> StepNormalise(P)

\* a call of runPipeline(m, p) begins: getComplexBuf
BeginRunPipeline(L, m, p) ==
  /\ loop' = [L EXCEPT !.stack = Append(@, "runPipeline"),
                       !.run = StartRun(complexBuf, twiddleCache),
                       !.args = [mask |-> m, params |-> p],
                       !.pc = 1, !.addr = 0]
  /\ complexBuf' = GetComplexBuf(complexBuf)
  /\ heap' = AllocComplexBuf(heap)
  /\ pipelineCalls' = pipelineCalls + 1
  /\ UNCHANGED <<twiddleCache, simLast, held>>

\* the host queues a user event; it may do so while a task is running
UserEvent ==
  /\ loop.events < MaxEvents
  /\ \E e \in UserEvents :
       loop' = [loop EXCEPT !.inputs = Append(@, e), !.events = @ + 1]
  /\ UNCHANGED <<storeVars, simVars>>

\* the host runs the listener of the first queued user event
Dispatch ==
  /\ Idle(loop)
  /\ loop.inputs # <<>>
  /\ LET e == Head(loop.inputs)
         L == [loop EXCEPT !.inputs = Tail(@)]
     IN \/ /\ e = "slider"
           /\ \E in \in LoopParamInputs : Commit(SetParam(Store, in[1], in[2]))
           /\ loop' = L
        \/ /\ e = "run"
           /\ \E sw \in LoopSweeps :
                loop' = [ClickRun(L, sw) EXCEPT !.requests = @ + 1]
           /\ UNCHANGED <<mask, params, viewParams, pendingNotify, rafQueue>>
        \/ /\ e = "tab"
           /\ \E sw \in LoopSweeps :
                loop' = [OnVizModeChange(L, sw) EXCEPT !.requests = @ + 1]
           /\ UNCHANGED <<mask, params, viewParams, pendingNotify, rafQueue>>
  /\ UNCHANGED <<listeners, simVars>>

\* the display refresh runs the callback of scheduleNotify, which calls
\* the subscriber: runPipeline(state.mask, state.params)
RafFire ==
  /\ Idle(loop)
  /\ rafQueue > 0
  /\ rafQueue' = rafQueue - 1
  /\ pendingNotify' = FALSE
  /\ BeginRunPipeline([loop EXCEPT !.stack = Append(@, "tick")], mask, params)
  /\ UNCHANGED <<mask, params, viewParams, listeners>>

\* the timer callback begins: getState and the call of runBossungSweep
TimerFire ==
  /\ Idle(loop)
  /\ loop.timers # <<>>
  /\ loop.sweeps < MaxSweeps
  /\ LET sw == Head(loop.timers)
     IN loop' = [loop EXCEPT
                   !.stack = @ \o <<"timeout", "runBossungSweep">>,
                   !.timers = Tail(@),
                   !.sweeps = @ + 1,
                   !.base = Store,
                   !.focus = Linspace(sw.focusRange[1], sw.focusRange[2],
                                      sw.focusSteps)]
  /\ UNCHANGED <<storeVars, simVars>>

\* the focus loop of runBossungSweep calls runPipeline for the next focus
SweepStep ==
  /\ loop.stack # <<>>
  /\ loop.stack[Len(loop.stack)] = "runBossungSweep"
  /\ loop.focus # <<>>
  /\ LET r == SpreadDefocus(params, Head(loop.focus))
     IN /\ BeginRunPipeline([loop EXCEPT !.focus = Tail(@)], mask, r.params)
        /\ params' = r.base
  /\ UNCHANGED <<mask, viewParams, listeners, pendingNotify, rafQueue>>

\* the call in progress takes its next step on the scratch buffer
PipelineStep ==
  /\ loop.stack # <<>>
  /\ loop.stack[Len(loop.stack)] = "runPipeline"
  /\ loop.pc \in 1..8
  /\ LET P == StepAt([loop.run EXCEPT !.complex = complexBuf,
                                       !.twiddleCache = twiddleCache],
                     loop.pc, loop.args.mask, loop.args.params)
         a == IF loop.pc = 7 THEN NewFloat32Array(heap) ELSE loop.addr
     IN /\ loop' = [loop EXCEPT !.run = P, !.pc = @ + 1, !.addr = a]
        /\ complexBuf' = P.complex
        /\ twiddleCache' = P.twiddleCache
        /\ heap' = IF loop.pc \in {7, 8} THEN WriteIntensity(heap, a, P.intensity)
                   ELSE heap
  /\ UNCHANGED <<storeVars, pipelineCalls, simLast, held>>

\* runPipeline returns to the subscriber, which renders the intensity and
\* returns, or to the sweep, which measures it; the intensity is dropped
PipelineReturn ==
  /\ loop.stack # <<>>
  /\ loop.stack[Len(loop.stack)] = "runPipeline"
  /\ loop.pc = 9
  /\ LET below == SubSeq(loop.stack, 1, Len(loop.stack) - 1)
     IN loop' = [loop EXCEPT
                   !.stack = IF below[Len(below)] = "tick"
                             THEN SubSeq(below, 1, Len(below) - 1)
                             ELSE below,
                   !.run = <<>>, !.args = <<>>, !.pc = 0, !.addr = 0]
  /\ heap' = Drop(heap, loop.addr)
  /\ UNCHANGED <<storeVars, complexBuf, twiddleCache, pipelineCalls, simLast,
                 held>>

\* runBossungSweep returns and the timer callback finishes: setRunning(false),
\* setVizMode("bossung"), which calls layout.onVizModeChange, and
\* bossungRunning = false
TimeoutFinish ==
  /\ loop.stack # <<>>
  /\ loop.stack[Len(loop.stack)] = "runBossungSweep"
  /\ loop.focus = <<>>
  /\ \E sw \in LoopSweeps :
       loop' = [OnVizModeChange(
                  [loop EXCEPT !.stack = SubSeq(@, 1, Len(@) - 2),
                               !.base = <<>>,
                               !.runDisabled = FALSE], sw)
                EXCEPT !.bossungRunning = FALSE]
  /\ UNCHANGED <<storeVars, simVars>>

\* ------------------------------------------------------- specifications
Init == StoreInit /\ CDIdle /\ SimInit

Next == StoreNext /\ UNCHANGED <<lastCall, cdVars, simVars, loopVars, gridVars, editorVars>>

Spec == Init /\ [][Next]_vars

\* calls of measureCD on one image
InitCD == StoreInit /\ CDInit /\ SimInit

NextCD ==
  MeasureCDCall /\ UNCHANGED <<storeVars, histVars, simVars, loopVars, gridVars, editorVars>>

SpecCD == InitCD /\ [][NextCD]_vars

\* calls of runPipeline and runBossungSweep
NextSim ==
  /\ RunPipelineCall \/ RunBossungSweepCall
  /\ UNCHANGED <<storeVars, histVars, cdVars>>

SpecSim == Init /\ [][NextSim]_vars

NextKeep ==
  /\ RunPipelineKeep \/ RunBossungSweepKeep
  /\ UNCHANGED <<storeVars, histVars, cdVars>>

SpecKeep == Init /\ [][NextKeep]_vars

\* setter calls and display refreshes on a store nobody has subscribed to
NextSetters ==
  /\ \/ CallSetMask
     \/ CallSetParam
     \/ CallSetZernikeCoeff
     \/ CallSetViewParam
     \/ CallResetParams
     \/ RefreshBetweenCalls
  /\ UNCHANGED <<cdVars, simVars, loopVars, gridVars, editorVars>>

SpecSetters == Init /\ [][NextSetters]_vars

\* the page after main() has run: the subscriber is registered and the
\* first preset button was clicked, which called setMask
InitLoop ==
  /\ mask = LineMask
  /\ params = DEFAULT_PARAMS
  /\ viewParams = DEFAULT_VIEW_PARAMS
  /\ listeners = <<"simulate">>
  /\ pendingNotify = TRUE
  /\ rafQueue = 1
  /\ lastOp = "call"
  /\ hist = HistInit
  /\ lastCall = NoSetterCall
  /\ CDIdle
  /\ SimInit

NextLoop ==
  /\ \/ UserEvent
     \/ Dispatch
     \/ RafFire
     \/ TimerFire
     \/ SweepStep
     \/ PipelineStep
     \/ PipelineReturn
     \/ TimeoutFinish
  /\ UNCHANGED <<histVars, cdVars, gridVars, editorVars>>

SpecLoop == InitLoop /\ [][NextLoop]_vars

\* ------------------------------------------- the store's objects
\* The default objects and the object state.params.zernike refers to, as
\* cells of the heap: params.zernike is the address of a cell here, and a
\* write through it changes the cell, whoever else refers to it.
DefaultZernikeAddr == 1         \* DEFAULT_ZERNIKE_COEFFS
DefaultParamsZernikeAddr == 2   \* DEFAULT_PARAMS.zernike, a copy of it
DefaultParamsAddr == 3          \* DEFAULT_PARAMS
DefaultViewAddr == 4            \* DEFAULT_VIEW_PARAMS
StateZernikeAddr == 5           \* the copy made for state.params

DefaultObjects ==
  <<[kind |-> "zernike", data |-> DEFAULT_ZERNIKE_COEFFS],
    [kind |-> "zernike", data |-> DEFAULT_ZERNIKE_COEFFS],
    [kind |-> "params",
     data |-> [DEFAULT_PARAMS EXCEPT !.zernike = DefaultParamsZernikeAddr]],
    [kind |-> "view", data |-> DEFAULT_VIEW_PARAMS]>>

InitObjects ==
  Append(DefaultObjects, [kind |-> "zernike", data |-> DEFAULT_ZERNIKE_COEFFS])

MaxResets == 2      \* resetParams calls

\* state.params.zernike[key] = value
ObjSetZernikeCoeff(M, key, value) ==
  [store |-> ScheduleNotify(M.store),
   heap |-> [M.heap EXCEPT ![M.store.params.zernike].data[key] = value]]

\* a reset that stops after Object.assign(state.params, DEFAULT_PARAMS)
ObjResetParamsAssignOnly(M) ==
  [store |-> ScheduleNotify(
               [M.store EXCEPT !.params = M.heap[DefaultParamsAddr].data,
                               !.viewParams = M.heap[DefaultViewAddr].data]),
   heap |-> M.heap]

\* resetParams: Object.assign copies the fields of DEFAULT_PARAMS, the
\* reference to its zernike object among them; the second statement
\* replaces the reference by one to a new copy of DEFAULT_ZERNIKE_COEFFS
ObjResetParams(M) ==
  LET assigned == M.heap[DefaultParamsAddr].data
      fresh == Len(M.heap) + 1
  IN [store |-> ScheduleNotify(
                  [M.store EXCEPT !.params = [assigned EXCEPT !.zernike = fresh],
                                  !.viewParams = M.heap[DefaultViewAddr].data]),
      heap |-> Append(M.heap, [kind |-> "zernike",
                               data |-> M.heap[DefaultZernikeAddr].data])]

ObjZernikeInputs == {<<"z9", 50>>, <<"z4", -20>>}

Objects == [store |-> Store, heap |-> heap]

\* a setter call returns: the store and the heap as it leaves them
ObjReturn(M, call) ==
  /\ Commit(M.store)
  /\ heap' = M.heap
  /\ lastCall' = call
  /\ UNCHANGED <<listeners, lastOp, hist, cdVars, complexBuf, twiddleCache,
                 pipelineCalls, simLast, held, loopVars, gridVars, editorVars>>

ObjCallSetParam ==
  \E in \in ParamInputs :
    ObjReturn([Objects EXCEPT !.store = SetParam(@, in[1], in[2])],
              [name |-> "setParam", key |-> in[1], value |-> in[2]])

ObjCallSetZernikeCoeff ==
  \E in \in ObjZernikeInputs :
    ObjReturn(ObjSetZernikeCoeff(Objects, in[1], in[2]),
              [name |-> "setZernikeCoeff", key |-> in[1], value |-> in[2]])

ObjCallSetViewParam ==
  \E in \in ViewInputs :
    ObjReturn([Objects EXCEPT !.store = SetViewParam(@, in[1], in[2])],
              [name |-> "setViewParam", key |-> in[1], value |-> in[2]])

ObjCallResetParams ==
  /\ Len(heap) < Len(InitObjects) + MaxResets
  /\ ObjReturn(ObjResetParams(Objects), [name |-> "resetParams"])

\* the display refresh between two calls; no listener is subscribed
ObjRefresh ==
  /\ rafQueue > 0
  /\ Tick
  /\ lastCall' = NoSetterCall
  /\ UNCHANGED <<cdVars, simVars, loopVars, gridVars, editorVars>>

InitObj ==
  /\ mask = ZeroMask
  /\ params = [DEFAULT_PARAMS EXCEPT !.zernike = StateZernikeAddr]
  /\ viewParams = DEFAULT_VIEW_PARAMS
  /\ listeners = <<>>
  /\ pendingNotify = FALSE
  /\ rafQueue = 0
  /\ lastOp = "call"
  /\ hist = HistInit
  /\ lastCall = NoSetterCall
  /\ CDIdle
  /\ complexBuf = NullBuf
  /\ twiddleCache = <<>>
  /\ pipelineCalls = 0
  /\ simLast = NoCall
  /\ heap = InitObjects
  /\ held = <<>>
  /\ loop = LoopIdle
  /\ grid = GridIdle
  /\ editor = EditorIdle

NextObj ==
  \/ ObjCallSetParam
  \/ ObjCallSetZernikeCoeff
  \/ ObjCallSetViewParam
  \/ ObjCallResetParams
  \/ ObjRefresh

SpecObj == InitObj /\ [][NextObj]_vars

\* the mask editor, with the subscriber of main.ts
InitEditor ==
  /\ mask = ZeroMask
  /\ params = DEFAULT_PARAMS
  /\ viewParams = DEFAULT_VIEW_PARAMS
  /\ listeners = <<"read">>
  /\ pendingNotify = FALSE
  /\ rafQueue = 0
  /\ lastOp = "call"
  /\ hist = [HistInit EXCEPT !.calls = <<0>>, !.nowCalls = <<0>>]
  /\ lastCall = NoSetterCall
  /\ CDIdle
  /\ SimInit

NextEditor ==
  /\ \/ MouseDown
     \/ MouseMove
     \/ MouseUp
     \/ SetToolMode
     \/ ClickShape
     \/ InputSize
     \/ ClickPreset
     \/ ClickClear
     \/ ClickInvert
     \/ EditorRefresh
  /\ UNCHANGED <<cdVars, simVars, loopVars, gridVars>>

SpecEditor == InitEditor /\ [][NextEditor]_vars

\* the store with listeners that may throw
NextThrow ==
  /\ \/ DoSetMask
     \/ DoSetParam
     \/ DoSetZernikeCoeff
     \/ DoSetViewParam
     \/ DoResetParams
     \/ SubscribeThrowing
     \/ NotifyNow
     \/ Tick
  /\ UNCHANGED <<lastCall, cdVars, simVars, loopVars, gridVars, editorVars>>

SpecThrow == Init /\ [][NextThrow]_vars

\* The event loop with every task run as one step and with no bound on the
\* sweeps: the count of sweeps is kept up to MaxSweeps and alternates
\* between MaxSweeps and MaxSweeps + 1 from there on, the count of pipeline
\* calls stays at MaxPipelineCalls once it is reached, and arrays that
\* were dropped are collected.
RECURSIVE Collect(_)
Collect(H) ==
  IF H # <<>> /\ H[Len(H)] = Free THEN Collect(SubSeq(H, 1, Len(H) - 1))
  ELSE H

UpTo(n, max) == IF n > max THEN max ELSE n

NextSweepCount(n) == IF n > MaxSweeps THEN MaxSweeps ELSE n + 1

\* the module state a task leaves behind
TaskLeaves(M) ==
  /\ complexBuf' = M.complexBuf
  /\ twiddleCache' = M.twiddleCache
  /\ pipelineCalls' = UpTo(M.pipelineCalls, MaxPipelineCalls)
  /\ heap' = Collect(M.heap)
  /\ UNCHANGED <<simLast, held>>

\* the display refresh: the callback of scheduleNotify and the subscriber
RafTask ==
  /\ rafQueue > 0
  /\ rafQueue' = rafQueue - 1
  /\ pendingNotify' = FALSE
  /\ \E r \in {RunPipeline(Machine, mask, params)} :
       TaskLeaves([r.m EXCEPT !.heap = Drop(@, r.result.addr)])
  /\ UNCHANGED <<mask, params, viewParams, listeners, loop>>

\* the timer callback: getState, runBossungSweep, setRunning(false),
\* setVizMode("bossung") and bossungRunning = false
TimerTask ==
  /\ loop.timers # <<>>
  /\ \E r \in {RunBossungSweep(Machine, mask, params, Head(loop.timers))} :
       TaskLeaves(r.m)
  /\ \E sw \in LoopSweeps :
       loop' = [OnVizModeChange(
                  [loop EXCEPT !.timers = Tail(@),
                               !.sweeps = NextSweepCount(@),
                               !.runDisabled = FALSE], sw)
                EXCEPT !.bossungRunning = FALSE]
  /\ UNCHANGED storeVars

NextLoopLive ==
  /\ \/ UserEvent
     \/ Dispatch
     \/ RafTask
     \/ TimerTask
  /\ UNCHANGED <<histVars, cdVars, gridVars, editorVars>>

\* The host runs the listener of a queued user event, a timer callback
\* that is due, and at a display refresh the callback that is queued.
\* TimerTask is enabled exactly when a timer is set and RafTask exactly
\* when a callback is queued, and both change the state, so the last two
\* conditions are weak fairness of these tasks, written out.
RunListener == Dispatch /\ UNCHANGED <<histVars, cdVars, gridVars, editorVars>>
FireTimer == TimerTask /\ UNCHANGED <<histVars, cdVars, gridVars, editorVars>>
Refresh == RafTask /\ UNCHANGED <<histVars, cdVars, gridVars, editorVars>>

SpecLoopLive ==
  /\ InitLoop
  /\ [][NextLoopLive]_vars
  /\ WF_vars(RunListener)
  /\ ([]<>(loop.timers = <<>>) \/ []<><<FireTimer>>_vars)
  /\ ([]<>(rafQueue = 0) \/ []<><<Refresh>>_vars)

\* calls of fftshift, fft2d and applyPupil on a grid
InitGrid ==
  /\ StoreInit
  /\ CDIdle
  /\ complexBuf = NullBuf
  /\ twiddleCache = <<>>
  /\ pipelineCalls = 0
  /\ simLast = NoCall
  /\ heap = InitHeap
  /\ held = <<>>
  /\ loop = LoopIdle
  /\ editor = EditorIdle
  /\ GridInit

NextGrid ==
  /\ CallFftshift \/ CallFft2d \/ CallApplyPupil
  /\ UNCHANGED <<storeVars, histVars, cdVars, loopVars, editorVars>>

SpecGrid == InitGrid /\ [][NextGrid]_vars

\* The same store driven by a caller that subscribes at most
\* MaxListenersLive listeners and makes at most MaxKLive setter calls and
\* MaxNowLive notifyNow calls between two display refreshes;
\* requestAnimationFrame eventually runs every callback it was given.
Deliver ==
  /\ rafQueue > 0
  /\ Tick
  /\ UNCHANGED <<lastCall, cdVars, simVars, loopVars, gridVars, editorVars>>

NextLive ==
  /\ Next
  /\ hist'.k <= MaxKLive
  /\ hist'.nowCount <= MaxNowLive
  /\ Len(listeners') <= MaxListenersLive

SpecLive == Init /\ [][NextLive]_vars /\ WF_vars(Deliver)

\* ---------------------------------------------------------------- claims
Subscribed == 1..Len(listeners)

\* C1: when a display tick fires after K >= 1 setter calls made since the
\* previous tick, every subscribed listener is invoked exactly once by it.
C1_Coalescing ==
  (lastOp = "tick" /\ hist.tickK >= 1) =>
    \A i \in Subscribed : hist.calls[i] = 1

C1_Witness ==
  /\ lastOp = "tick"
  /\ hist.tickK >= 3
  /\ Len(listeners) >= 2
  /\ \A i \in Subscribed : hist.calls[i] = 1

C3_Reentrancy ==
  /\ (lastOp = "tick" /\ hist.reentered) =>
        /\ \A i \in Subscribed : hist.calls[i] = 1
        /\ rafQueue = 1
        /\ pendingNotify
  /\ (lastOp = "tick" /\ hist.afterReentry) =>
        /\ \A i \in Subscribed : hist.calls[i] = 1
        /\ (~hist.reentered => rafQueue = 0 /\ ~pendingNotify)

C3_Witness ==
  /\ lastOp = "tick"
  /\ hist.afterReentry
  /\ hist.tickK = 0
  /\ \E i \in Subscribed : listeners[i] = "clamp" /\ hist.calls[i] = 1

\* C4 as stated: between two consecutive ticks every listener is invoked
\* at most once, notifyNow calls included.
C4_Original ==
  \A i \in Subscribed :
    /\ hist.nowCalls[i] <= 1
    /\ (lastOp = "tick" => hist.calls[i] <= 1)

\* C4 (amended): a display tick invokes every listener at most once, and
\* between two ticks a listener is invoked only by notifyNow, once per
\* notifyNow call.
C4_AtMostOncePerTick ==
  \A i \in Subscribed :
    /\ (lastOp = "tick" => hist.calls[i] <= 1)
    /\ (lastOp = "notifyNow" => hist.calls[i] = 1)
    /\ hist.nowCalls[i] <= hist.nowCount

C4_Witness ==
  /\ lastOp = "tick"
  /\ hist.tickK >= 2
  /\ Len(listeners) >= 1
  /\ hist.calls[1] = 1

\* C5: under SpecLive, a setter call is eventually followed by an
\* invocation of every subscribed listener, and the invocation sees the
\* values of the latest setter calls. A call made by a listener during a
\* notification is followed by an invocation at a later tick.
Invoked(i) ==
  /\ hist.calls[i] >= 1
  /\ \E j \in 1..Len(hist.obs) :
       hist.obs[j].listener = i /\ hist.obs[j].isLast

AllInvoked ==
  /\ Len(hist.obs) >= Len(listeners)
  /\ \A i \in Subscribed : Invoked(i)

C5_NoLostUpdate ==
  /\ ((lastOp = "call" /\ hist.k > 0) \/ (lastOp = "notifyNow" /\ hist.w > 0))
       ~> (AllInvoked /\ lastOp = "tick")
  /\ \A b \in {0, 1} :
       (lastOp = "tick" /\ hist.reentered /\ hist.phase = b)
       ~> (AllInvoked /\ lastOp = "tick"
             /\ (hist.phase # b \/ ~hist.reentered))

C5_Witness ==
  /\ lastOp = "tick"
  /\ Len(listeners) >= 1
  /\ hist.tickK >= 1
  /\ AllInvoked
  /\ hist.obs[1].seen.params.na = 80

\* the centre row of the image, thresholded at the dose
Printed(intensity, dose, c) ==
  intensity.px[(N \div 2) * N + c] * dose >= intensity.den * Q

\* the lengths of the runs of printed columns
RunLengths(intensity, dose) ==
  {b - a + 1 : <<a, b>> \in
     {ab \in (0..(N - 1)) \X (0..(N - 1)) :
        ab[1] <= ab[2] /\ \A c \in ab[1]..ab[2] : Printed(intensity, dose, c)}}

Max0(S) == IF S = {} THEN 0 ELSE CHOOSE x \in S : \A y \in S : y <= x

\* C8: measureCD returns pixelSize times the length of the longest run of
\* columns of the centre row with intensity * dose >= 1.0, a run that ends
\* at the last column included, and 0 when there is no such column.
C8_MeasureCDReference ==
  \A j \in 1..Len(cdMeas) :
    cdMeas[j].cd = PIXEL_SIZE_NM * Max0(RunLengths(cdImage, cdMeas[j].dose))

\* a run that ends at the last column, and is the longest, was measured
C8_Witness ==
  /\ Len(cdMeas) >= 1
  /\ cdMeas[1].cd = 2 * PIXEL_SIZE_NM
  /\ Printed(cdImage, cdMeas[1].dose, N - 1)
  /\ Printed(cdImage, cdMeas[1].dose, N - 2)
  /\ Printed(cdImage, cdMeas[1].dose, 0)
  /\ ~Printed(cdImage, cdMeas[1].dose, 1)

\* C9: for one image with values in [0, 1], measureCD is non-decreasing in
\* the dose.
C9_MonotoneInDose ==
  \A a, b \in 1..Len(cdMeas) :
    cdMeas[a].dose <= cdMeas[b].dose => cdMeas[a].cd <= cdMeas[b].cd

C9_Witness ==
  /\ Len(cdMeas) = 2
  /\ cdMeas[1].dose < cdMeas[2].dose
  /\ 0 < cdMeas[1].cd
  /\ cdMeas[1].cd < cdMeas[2].cd

StepOrder ==
  <<"load", "fft2d", "fftshift", "applyPupil", "fftshift", "ifft2d",
    "intensity", "normalise">>

\* C6: one runBossungSweep call with F focus steps and D dose steps invokes
\* runPipeline exactly F times, and the returned pipelineRuns is F and is
\* the number of runPipeline invocations made.
C6_PipelineCount ==
  simLast.op = "runBossungSweep" =>
    /\ pipelineCalls - simLast.before = simLast.sweepParams.focusSteps
    /\ Len(simLast.runs) = simLast.sweepParams.focusSteps
    /\ simLast.result.pipelineRuns = simLast.sweepParams.focusSteps

C6_Witness ==
  /\ simLast.op = "runBossungSweep"
  /\ simLast.sweepParams.focusSteps = 3
  /\ simLast.sweepParams.doseSteps = 3
  /\ simLast.before = 1
  /\ pipelineCalls = 4
  /\ simLast.result.pipelineRuns = 3

\* C7: the result of a sweep with F focus steps and D dose steps has D
\* curves, curve d has the dose doseValues[d] and F points, and point f of
\* every curve has the focus focusValues[f].
C7_ResultShape ==
  simLast.op = "runBossungSweep" =>
    LET res == simLast.result
        F == simLast.sweepParams.focusSteps
        D == simLast.sweepParams.doseSteps
    IN /\ Len(res.focusValues) = F
       /\ Len(res.doseValues) = D
       /\ Len(res.curves) = D
       /\ \A d \in 1..D :
            /\ res.curves[d].dose = res.doseValues[d]
            /\ Len(res.curves[d].points) = F
            /\ \A f \in 1..F :
                 res.curves[d].points[f].focus = res.focusValues[f]

C7_Witness ==
  /\ simLast.op = "runBossungSweep"
  /\ Len(simLast.result.curves) = 3
  /\ Len(simLast.result.curves[3].points) = 3
  /\ simLast.result.focusValues = <<-6, 0, 6>>
  /\ simLast.result.curves[3].points[3].focus = 6
  /\ simLast.result.curves[3].dose = Q + 6
  /\ simLast.result.curves[1].points[2].cd > 0

\* C10: every runPipeline call takes the eight steps once each and in
\* order: load (real = mask[i], imaginary = 0), forward FFT, fftshift,
\* applyPupil, fftshift, inverse FFT, intensity with its maximum,
\* normalisation.
C10_StepOrder ==
  \A j \in 1..Len(simLast.runs) :
    /\ simLast.runs[j].trace = StepOrder
    /\ simLast.runs[j].loaded = [i \in 0..(N2 - 1) |-> <<simLast.mask[i], 0>>]

C10_Witness ==
  /\ simLast.op = "runPipeline"
  /\ simLast.mask = DotMask
  /\ simLast.params.defocus = 1
  /\ Len(simLast.runs) = 1
  /\ simLast.runs[1].trace = StepOrder
  /\ simLast.runs[1].maxVal > 0
  /\ simLast.runs[1].divided

\* the greatest entry of an image, as a numerator over image.den
MaxPx(image) == Max0({image.px[i] : i \in 0..(N2 - 1)})

\* C11: every entry of the intensity returned by runPipeline is in [0, 1],
\* and its greatest entry is exactly 1 when the maximum before the
\* normalisation is positive and exactly 0 otherwise.
C11_IntensityBounds ==
  \A j \in 1..Len(simLast.runs) :
    LET image == simLast.runs[j].intensity
    IN /\ \A i \in 0..(N2 - 1) : 0 <= image.px[i] /\ image.px[i] <= image.den
       /\ MaxPx(image) = IF simLast.runs[j].maxVal > 0 THEN image.den ELSE 0

\* C11, the part that holds: every entry is in [0, 1], and the greatest is
\* 0 when the maximum before the normalisation is 0.
C11_WithinUnitInterval ==
  \A j \in 1..Len(simLast.runs) :
    LET image == simLast.runs[j].intensity
    IN /\ \A i \in 0..(N2 - 1) : 0 <= image.px[i] /\ image.px[i] <= image.den
       /\ simLast.runs[j].maxVal = 0 => MaxPx(image) = 0

\* C12: when the maximum of re^2 + im^2 is 0, runPipeline divides nothing
\* and returns an intensity that is 0 everywhere, whose measureCD is 0 at
\* every dose.
C12_EmptyImage ==
  \A j \in 1..Len(simLast.runs) :
    simLast.runs[j].maxVal = 0 =>
      /\ ~simLast.runs[j].divided
      /\ \A i \in 0..(N2 - 1) : simLast.runs[j].intensity.px[i] = 0
      /\ \A dose \in Doses : MeasureCD(simLast.runs[j].intensity, dose) = 0
      /\ simLast.op = "runBossungSweep" =>
            \A d \in 1..Len(simLast.result.curves) :
              simLast.result.curves[d].points[j].cd = 0

C12_Witness ==
  /\ simLast.op = "runBossungSweep"
  /\ simLast.mask = ZeroMask
  /\ Len(simLast.runs) = 3
  /\ Len(simLast.result.curves) = 3
  /\ simLast.runs[3].maxVal = 0
  /\ ~simLast.runs[3].divided
  /\ simLast.result.curves[3].points[3].cd = 0

\* the state of the modules before any call
FreshMachine ==
  [complexBuf |-> NullBuf, twiddleCache |-> <<>>, pipelineCalls |-> 0,
   runs |-> <<>>, heap |-> InitHeap]

\* the parameters of the j-th runPipeline invocation of the last call
ParamsOfRun(j) ==
  IF simLast.op = "runBossungSweep"
  THEN [simLast.params EXCEPT !.defocus = simLast.result.focusValues[j]]
  ELSE simLast.params

\* C13: the intensity runPipeline returns for (mask, params) after any
\* earlier runPipeline and runBossungSweep calls is the intensity it returns
\* for them as the first call ever made.
C13_HistoryIndependence ==
  \A j \in 1..Len(simLast.runs) :
    simLast.runs[j].intensity
      = RunPipeline(FreshMachine, simLast.mask, ParamsOfRun(j)).result.intensity

C13_Witness ==
  /\ simLast.op = "runPipeline"
  /\ simLast.before = 2
  /\ simLast.mask = DotMask
  /\ simLast.params.defocus = 1
  /\ twiddleCache # <<>>
  /\ simLast.result.intensity
       = RunPipeline(FreshMachine, DotMask, simLast.params).result.intensity
  /\ simLast.result.intensity
       # RunPipeline(FreshMachine, LineMask, simLast.params).result.intensity

\* C14: every intensity a caller was given is still an array of its own:
\* its address is not that of the mask, of the scratch buffer or of any
\* other intensity given out, and its contents are what they were when
\* runPipeline returned it, whatever runPipeline and runBossungSweep calls
\* were made since.
C14_FreshIntensity ==
  \A k \in 1..Len(held) :
    /\ held[k].addr # MaskAddr
    /\ held[k].addr # ScratchAddr(heap)
    /\ \A j \in 1..Len(held) : j # k => held[j].addr # held[k].addr
    /\ heap[held[k].addr] = [kind |-> "intensity", data |-> held[k].data]

C14_Witness ==
  /\ Len(held) = 2
  /\ held[1].data # held[2].data
  /\ simLast.op = "runBossungSweep"
  /\ simLast.mask = DotMask
  /\ simLast.before = 2
  /\ \E j \in 1..Len(simLast.runs) :
       simLast.runs[j].intensity \notin {held[1].data, held[2].data}
  /\ heap[held[1].addr].data = held[1].data

\* frames of a kind on the call stack
Frames(kind) == {i \in 1..Len(loop.stack) : loop.stack[i] = kind}

\* C15: at every moment of every interleaving of user events, display
\* refreshes and Bossung timer callbacks, at most one runPipeline call is in
\* progress, and the subscriber's call is never in progress together with a
\* sweep: a runPipeline call runs either for the subscriber alone or for the
\* one sweep in progress.
C15_ExclusiveScratch ==
  /\ Cardinality(Frames("runPipeline")) <= 1
  /\ Cardinality(Frames("runBossungSweep")) <= 1
  /\ Frames("tick") = {} \/ Frames("runBossungSweep") = {}
  /\ Frames("runPipeline") # {} =>
       loop.stack \in {<<"tick", "runPipeline">>,
                       <<"timeout", "runBossungSweep", "runPipeline">>}

\* a sweep is in the middle of a runPipeline call while a notification and a
\* timer callback are pending and a user event is queued
C15_Witness ==
  /\ loop.stack = <<"timeout", "runBossungSweep", "runPipeline">>
  /\ loop.pc = 5
  /\ rafQueue > 0
  /\ loop.inputs # <<>>
  /\ pipelineCalls >= 2

\* the calls k and k + 1 on the grid were both op
Twice(op, k) == k + 1 <= Len(grid.ops) /\ grid.ops[k] = op /\ grid.ops[k + 1] = op

\* C16: on a grid of even size n, one fftshift moves the sample at (r, c) to
\* ((r + n/2) mod n, (c + n/2) mod n), so the DC bin at (0, 0) lands at
\* (n/2, n/2), and two in a row give back the grid exactly.
C16_FftshiftInvolution ==
  LET n == grid.n
      half == n \div 2
  IN \A k \in 1..Len(grid.ops) :
       grid.ops[k].name = "fftshift" =>
         /\ \A r \in 0..(n - 1), c \in 0..(n - 1) :
              grid.trail[k + 1].z[(((r + half) % n) * n) + ((c + half) % n)]
                = grid.trail[k].z[(r * n) + c]
         /\ grid.trail[k + 1].z[(half * n) + half] = grid.trail[k].z[0]
         /\ grid.trail[k + 1].den = grid.trail[k].den
         /\ Twice([name |-> "fftshift"], k) => grid.trail[k + 2] = grid.trail[k]

C16_Witness ==
  /\ grid.n = 6
  /\ grid.ops = <<[name |-> "fftshift"], [name |-> "fftshift"]>>
  /\ grid.trail[1] = Impulse(6, 0, <<-2, 3>>)
  /\ grid.trail[2] = Impulse(6, 21, <<-2, 3>>)
  /\ grid.trail[3] = grid.trail[1]

\* the grids A and B hold the same values: A.z[i] / A.den = B.z[i] / B.den
SameValues(A, B) ==
  /\ DOMAIN A.z = DOMAIN B.z
  /\ \A i \in DOMAIN A.z :
       /\ A.z[i][1] * B.den = B.z[i][1] * A.den
       /\ A.z[i][2] * B.den = B.z[i][2] * A.den

\* row r of an N x N grid, as a vector
Row(G, r) == [z |-> [c \in 0..(N - 1) |-> G.z[(r * N) + c]], den |-> G.den]

\* C17: fft2d forward followed by fft2d inverse gives back the values of
\* the grid, the inverse dividing by N in each 1-D pass (a forward and an
\* inverse fft1d give back a row) and so by N * N in 2-D: without the
\* division the values would be N * N times those of the grid.
C17_FftRoundTrip ==
  \A k \in 1..Len(grid.ops) :
    (/\ k + 1 <= Len(grid.ops)
     /\ grid.ops[k] = [name |-> "fft2d", inverse |-> FALSE]
     /\ grid.ops[k + 1] = [name |-> "fft2d", inverse |-> TRUE])
    => /\ SameValues(grid.trail[k + 2], grid.trail[k])
       /\ grid.trail[k + 2].den = grid.trail[k + 1].den * N * N
       /\ \A r \in 0..(N - 1) :
            LET F == Fft1d(Row(grid.trail[k], r), FALSE, twiddleCache)
                B == Fft1d(F, TRUE, twiddleCache)
            IN /\ SameValues(B, Row(grid.trail[k], r))
               /\ B.den = F.den * N

C17_Witness ==
  /\ grid.ops = <<[name |-> "fft2d", inverse |-> FALSE],
                  [name |-> "fft2d", inverse |-> TRUE]>>
  /\ grid.trail[1] = Ramp(N)
  /\ grid.trail[2].z[0] = <<136, -1>>
  /\ grid.trail[3].den = N * N
  /\ grid.trail[3].z # grid.trail[1].z
  /\ SameValues(grid.trail[3], grid.trail[1])
  /\ <<1, 1>> \in DOMAIN twiddleCache

C19_ResetToDefaults ==
  lastCall.name = "resetParams" =>
    /\ params.wavelength = 248
    /\ params.na = 75
    /\ params.sigma = 50
    /\ params.defocus = 0
    /\ \A key \in ZKeys : params.zernike[key] = 0
    /\ DOMAIN params = {"wavelength", "na", "sigma", "defocus", "zernike"}
    /\ mask = lastCall.before.mask
    /\ pendingNotify
    /\ rafQueue = lastCall.before.rafQueue
                    + (IF lastCall.before.pendingNotify THEN 0 ELSE 1)
    /\ rafQueue >= 1

\* a reset after the mask, a parameter and a coefficient were set
C19_Witness ==
  /\ lastCall.name = "resetParams"
  /\ lastCall.before.scalarsSet
  /\ lastCall.before.zernikeSet
  /\ lastCall.before.mask = LineMask
  /\ mask = LineMask
  /\ params = DEFAULT_PARAMS
  /\ pendingNotify

\* C20: a setter stores the value it is given, clamped or checked in no
\* way, and changes nothing else: setParam(key, v) leaves params[key] = v,
\* also for v outside the slider range, and the mask, the other optical
\* parameters, the Zernike coefficients and the view parameters as they
\* were; setZernikeCoeff changes the named coefficient alone and
\* setViewParam the named view parameter alone.
C20_SettersStoreAsGiven ==
  LET c == lastCall
  IN /\ c.name = "setParam" =>
          /\ params[c.key] = c.value
          /\ \A k \in DOMAIN params \ {c.key} : params[k] = c.before.params[k]
          /\ DOMAIN params = DOMAIN c.before.params
          /\ mask = c.before.mask
          /\ viewParams = c.before.viewParams
     /\ c.name = "setZernikeCoeff" =>
          /\ params.zernike[c.key] = c.value
          /\ \A k \in ZKeys \ {c.key} :
               params.zernike[k] = c.before.params.zernike[k]
          /\ \A k \in DOMAIN params \ {"zernike"} :
               params[k] = c.before.params[k]
          /\ mask = c.before.mask
          /\ viewParams = c.before.viewParams
     /\ c.name = "setViewParam" =>
          /\ viewParams[c.key] = c.value
          /\ \A k \in DOMAIN viewParams \ {c.key} :
               viewParams[k] = c.before.viewParams[k]
          /\ params = c.before.params
          /\ mask = c.before.mask

\* sigma = 1.5, outside the slider range [0, 1], is stored as given
C20_Witness ==
  /\ lastCall.name = "setParam"
  /\ lastCall.key = "sigma"
  /\ lastCall.value = 150
  /\ lastCall.value > SIGMA_MAX
  /\ params.sigma = 150
  /\ lastCall.before.params.sigma = 30
  /\ lastCall.before.viewParams.threshold = 5
  /\ lastCall.before.params.zernike.z9 = 50
  /\ params.zernike.z9 = 50

\* ------------------------------------------------------------- linspace
\* the sweep that simLast records, with one focus step
SingleStep ==
  /\ simLast.op = "runBossungSweep"
  /\ simLast.sweepParams.focusSteps = 1

\* C21: with focusSteps = 1 the focus values are the one value
\* (f_min + f_max) / 2, the pipeline runs once and every curve has exactly
\* one point, at that focus; with focusSteps >= 2 there are focusSteps
\* focus values, the first the least of the range and the last its
\* greatest.
C21_SingleStepSweep ==
  simLast.op = "runBossungSweep" =>
    LET sw == simLast.sweepParams
        r == simLast.result
    IN IF sw.focusSteps = 1
       THEN /\ r.focusValues
                 = <<DblQuot(Dbl(sw.focusRange[1] + sw.focusRange[2]), 2)>>
            /\ Len(simLast.runs) = 1
            /\ r.pipelineRuns = 1
            /\ \A d \in 1..Len(r.curves) :
                 /\ Len(r.curves[d].points) = 1
                 /\ r.curves[d].points[1].focus = r.focusValues[1]
       ELSE /\ Len(r.focusValues) = sw.focusSteps
            /\ r.focusValues[1] = sw.focusRange[1]
            /\ r.focusValues[sw.focusSteps] = sw.focusRange[2]

\* what holds of C21: the single step, the number of values and the first
\* value
C21_StepsAndFirst ==
  simLast.op = "runBossungSweep" =>
    LET sw == simLast.sweepParams
        r == simLast.result
    IN IF sw.focusSteps = 1
       THEN /\ r.focusValues
                 = <<DblQuot(Dbl(sw.focusRange[1] + sw.focusRange[2]), 2)>>
            /\ Len(simLast.runs) = 1
            /\ r.pipelineRuns = 1
            /\ \A d \in 1..Len(r.curves) :
                 /\ Len(r.curves[d].points) = 1
                 /\ r.curves[d].points[1].focus = r.focusValues[1]
       ELSE /\ Len(r.focusValues) = sw.focusSteps
            /\ r.focusValues[1] = sw.focusRange[1]

\* one step over [-6, 10] runs once, at focus 2; two steps over [-6, 11]
\* end at 10
C21_SingleStepReached ==
  /\ SingleStep
  /\ simLast.sweepParams.focusRange = <<-6, 10>>
  /\ simLast.result.focusValues = <<2>>
  /\ Len(simLast.runs) = 1

C21_LastBelowMaximum ==
  /\ simLast.op = "runBossungSweep"
  /\ simLast.sweepParams.focusRange = <<-6, 11>>
  /\ simLast.result.focusValues = <<-6, 10>>

\* ------------------------------------------------- snapshot within a tick
\* C22: all listeners invoked by one display tick observe the same mask,
\* params and viewParams, those written before the tick began, also when
\* a listener invoked earlier by the same tick calls a setter.
C22_ConsistentSnapshot ==
  lastOp = "tick" =>
    \A i, j \in 1..Len(hist.obs) :
      /\ hist.obs[i].seen = hist.obs[j].seen
      /\ hist.obs[i].isBoundary

\* what holds of C22: a tick during which no listener calls a setter shows
\* every listener the state written before the tick
C22_SnapshotWithoutReentry ==
  (lastOp = "tick" /\ ~hist.reentered) =>
    \A i, j \in 1..Len(hist.obs) :
      /\ hist.obs[i].seen = hist.obs[j].seen
      /\ hist.obs[i].isBoundary

\* sigma = 1.5 is set, the first listener clamps it to 1 and the second
\* listener of the same tick sees 1
C22_SecondListenerSeesWrite ==
  /\ lastOp = "tick"
  /\ Len(hist.obs) = 2
  /\ listeners[1] = "clamp"
  /\ hist.obs[1].seen.params.sigma = 150
  /\ hist.obs[2].seen.params.sigma = SIGMA_MAX

\* --------------------------------------------------------- sweep trigger
\* the timer callback has run to its end
SweepFinished ==
  /\ loop.sweeps >= 1
  /\ loop.stack = <<>>

\* C23: every Bossung request, a click on the run button or a switch to
\* the Bossung tab, results in exactly one execution of runBossungSweep,
\* and the setVizMode("bossung") at the end of a sweep starts no other:
\* the sweeps run and the timers pending never outnumber the requests.
C23_SweepRunsOnce ==
  loop.sweeps + Len(loop.timers) <= loop.requests

\* what holds of C23: the timer callback of a sweep that was requested by
\* a switch to the tab, or during which the tab was opened, sets no timer
C23_TabRunsOnce ==
  [][(/\ loop.stack = <<"timeout", "runBossungSweep">>
      /\ loop'.stack = <<>>
      /\ loop.bossungRunning) => loop'.timers = loop.timers]_vars

\* one click on the run button and nothing else: the sweep has run and its
\* timer callback has set another timer
C23_SecondTimerSet ==
  /\ SweepFinished
  /\ loop.events = 1
  /\ loop.requests = 1
  /\ loop.sweeps = 1
  /\ Len(loop.timers) = 1
  /\ loop.runDisabled

\* ------------------------------------------------------ sweep quiescence
Quiescent ==
  /\ loop.timers = <<>>
  /\ loop.stack = <<>>
  /\ ~loop.bossungRunning
  /\ ~loop.runDisabled

\* C24: under SpecLoopLive, where timers fire and tasks run to their end,
\* after the finitely many user actions the system reaches, and stays in,
\* a state with no sweep timer pending, bossungRunning = false and the run
\* button enabled.
C24_SweepQuiescence == <>[]Quiescent

\* what holds of C24: a sweep requested by opening the tab, with no click
\* on the run button before, ends in a quiescent state
C24_TabQuiesces ==
  (loop.requests = 1 /\ loop.bossungRunning /\ loop.sweeps = 0)
    ~> (Quiescent /\ loop.sweeps = 1)

\* the sweeps have reached their count and another timer is pending, the
\* button disabled
C24_TimerPendingAgain ==
  /\ loop.sweeps = MaxSweeps
  /\ loop.requests = 1
  /\ loop.inputs = <<>>
  /\ loop.stack = <<>>
  /\ Len(loop.timers) = 1
  /\ loop.runDisabled

\* ------------------------------------------------- the sweep's arguments
SweepInProgress ==
  \E i \in 1..Len(loop.stack) : loop.stack[i] = "runBossungSweep"

\* C25: runBossungSweep changes neither baseParams, its defocus and Zernike
\* coefficients included, nor the mask, calls no setter and schedules no
\* notification, and every pipeline run of a sweep uses the mask and the
\* parameters of the sweep, the defocus apart: from the call of
\* runBossungSweep to its return the store is as it was when the sweep
\* began, and the arguments of every run are taken from it.
C25_SweepKeepsInputs ==
  SweepInProgress =>
    /\ Store = loop.base
    /\ loop.stack[Len(loop.stack)] = "runPipeline" =>
         /\ loop.args.mask = loop.base.mask
         /\ DOMAIN loop.args.params = DOMAIN loop.base.params
         /\ \A k \in DOMAIN loop.base.params \ {"defocus"} :
              loop.args.params[k] = loop.base.params[k]

\* the second run of a sweep at na = 0.7, at focus 6, has taken its last
\* step; a notification was pending when the sweep began
C25_Witness ==
  /\ loop.stack = <<"timeout", "runBossungSweep", "runPipeline">>
  /\ loop.focus = <<>>
  /\ loop.pc = 9
  /\ loop.args.params.defocus = 6
  /\ loop.args.params.na = 70
  /\ params.na = 70
  /\ params.defocus = 0
  /\ pendingNotify

\* ------------------------------------------------- flag and scheduler
\* C28: in every reachable state pendingNotify is true exactly when one
\* notification callback is queued with requestAnimationFrame, and never
\* is more than one queued, whatever setters, notifyNow calls and display
\* refreshes have occurred.
C28_PendingMatchesQueue ==
  /\ rafQueue \in {0, 1}
  /\ pendingNotify <=> rafQueue = 1

\* a refresh that followed two setter calls has run the one callback
\* queued, and a listener of it has called a setter
C28_Witness ==
  /\ lastOp = "tick"
  /\ hist.reentered
  /\ hist.tickK >= 2
  /\ \A i \in Subscribed : hist.calls[i] = 1
  /\ pendingNotify
  /\ rafQueue = 1

\* --------------------------------------------------- a listener throws
\* the listeners a notification invoked: the first ones, up to the one
\* that threw
InvokedUpToThrow ==
  /\ Len(hist.obs) >= 1
  /\ \A j \in 1..Len(hist.obs) :
       hist.obs[j].listener = j /\ hist.calls[j] = 1
  /\ Len(hist.obs) < Len(listeners) => hist.threw

\* C29: a listener that throws during the notification of a display tick
\* leaves pendingNotify reset, unless a listener invoked before it called
\* a setter, which queued one callback; so the next setter call queues a
\* callback, and the tick that follows invokes the listeners again.
C29_ThrowDoesNotWedge ==
  /\ (lastOp = "tick" /\ hist.threw) =>
        /\ pendingNotify <=> hist.w > 0
        /\ rafQueue = (IF hist.w > 0 THEN 1 ELSE 0)
  /\ (lastOp = "call" /\ hist.afterThrow /\ hist.k >= 1) =>
        /\ pendingNotify
        /\ rafQueue = 1
  /\ (lastOp = "tick" /\ hist.afterThrow /\ hist.tickK >= 1
        /\ listeners # <<>>) => InvokedUpToThrow

\* a tick at which the first of two listeners threw, then setParam, then a
\* tick that invokes both listeners
C29_Witness ==
  /\ lastOp = "tick"
  /\ hist.afterThrow
  /\ ~hist.threw
  /\ hist.tickK = 1
  /\ listeners = <<"throw", "read">>
  /\ hist.calls = <<1, 1>>
  /\ hist.obs[1].seen.params.sigma = 30
  /\ ~pendingNotify

C26_MaskStaysBinary ==
  /\ DOMAIN mask = 0..(N2 - 1)
  /\ \A i \in 0..(N2 - 1) : mask[i] \in {0, 1}

\* a ring was stamped at the corner and the mask inverted
C26_Witness ==
  /\ editor.last = "invert"
  /\ editor.toolMode = "stamp"
  /\ editor.stampShape = "ring"
  /\ editor.edits = 2
  /\ mask[0] = 1
  /\ mask[1] = 0
  /\ mask[N] = 0
  /\ mask[N2 - 1] = 1

\* the handlers of the editor that write to the mask
MaskHandlers == {"paint", "preset", "clear", "invert"}

\* C27: every handler of the editor that changes the mask, paint with the
\* brush or a stamp, INVERT, CLEAR and a preset load, calls setMask before
\* it returns: while the mask holds a change the listeners have not been
\* shown, a notification is pending with its callback queued, and the
\* display tick shows the listeners the mask as changed.
C27_EditsRepublished ==
  /\ editor.dirty => (pendingNotify /\ rafQueue = 1)
  /\ editor.last \in MaskHandlers => (pendingNotify /\ rafQueue = 1)
  /\ editor.last = "tick" =>
       /\ ~editor.dirty
       /\ Len(hist.obs) = 1
       /\ hist.obs[1].seen.mask = mask

\* the isolated line was loaded and shown, then the brush painted the
\* corner in place, and the next tick showed the painted mask
C27_Witness ==
  /\ editor.last = "tick"
  /\ editor.edits = 2
  /\ editor.painting
  /\ mask = PaintAt(IsolatedLine, 0, 0, BrushOffsets, 1)
  /\ mask # IsolatedLine
  /\ hist.obs[1].seen.mask = mask
  /\ ~pendingNotify

=============================================================================
